---------------------------- MODULE Spec2Model ----------------------------
(***************************************************************************)
(* A model of the subprocess transport of the Claude agent SDK for Go      *)
(* (src/internal/transport/transport.go): the transport object, the child  *)
(* process behind its three pipes, the reader goroutine with its framer,   *)
(* the callers of Connect / Write / EndInput / Close and the consumer of   *)
(* the message channel.                                                    *)
(*                                                                         *)
(* Text is a sequence of one-character strings.  The JSON of the child is  *)
(* modelled by a small grammar that keeps what the framer depends on:      *)
(* an object is  { "content" }  with optional blanks around the string,    *)
(* blanks inside the string are part of the content, and a proper prefix   *)
(* of an object is not an object.  The first character of the content is   *)
(* the value of the "type" field, the rest is the payload of the message.  *)
(***************************************************************************)
EXTENDS Naturals, Integers, Sequences, FiniteSets, TLC

(***************************************************************************)
(* Bounds of the model.                                                    *)
(***************************************************************************)
\* objects the child writes in one run of the framer specification
MaxObjs == 2
\* largest max_buffer_size an options value sets
MaxBuf == 7
\* Write calls made by the callers in one run
MaxCalls == 4
\* capacity of messageChan (100 in the source, transport.go:157), scaled down
MessageChanCap == 2
\* capacity of errorChan (10 in the source, transport.go:158), scaled down
ErrorChanCap == 2

\* reader.Buffer(buf, 10*1024*1024): the scanner's cap on one line
ScannerMaxTokenSize == 10485760

(***************************************************************************)
(* Text.                                                                   *)
(***************************************************************************)
SP == " "
QUOTE == "\""
LBRACE == "{"
RBRACE == "}"

\* unicode.IsSpace on the model's alphabet
IsSpace(c) == c = SP

RECURSIVE TrimLeft(_)
TrimLeft(s) ==
    IF s = <<>> THEN s
    ELSE IF IsSpace(Head(s)) THEN TrimLeft(Tail(s)) ELSE s

RECURSIVE TrimRight(_)
TrimRight(s) ==
    IF s = <<>> THEN s
    ELSE IF IsSpace(s[Len(s)]) THEN TrimRight(SubSeq(s, 1, Len(s) - 1)) ELSE s

\* strings.TrimSpace
TrimSpace(s) == TrimRight(TrimLeft(s))

RECURSIVE Flatten(_)
Flatten(ss) == IF ss = <<>> THEN <<>> ELSE Head(ss) \o Flatten(Tail(ss))

(***************************************************************************)
(* encoding/json on the model's grammar: a scanner for an object and for   *)
(* the literal null, which json.Unmarshal accepts for a map (it leaves the *)
(* map nil and returns no error).                                          *)
(***************************************************************************)
JSONStep(st, c) ==
    CASE st = "start"    -> IF c = LBRACE THEN "open"
                            ELSE IF c = "n" THEN "n"
                            ELSE IF IsSpace(c) THEN "start" ELSE "bad"
      [] st = "n"        -> IF c = "u" THEN "nu" ELSE "bad"
      [] st = "nu"       -> IF c = "l" THEN "nul" ELSE "bad"
      [] st = "nul"      -> IF c = "l" THEN "closed" ELSE "bad"
      [] st = "open"     -> IF c = QUOTE THEN "instr"
                            ELSE IF c = RBRACE THEN "closed"
                            ELSE IF IsSpace(c) THEN "open" ELSE "bad"
      [] st = "instr"    -> IF c = QUOTE THEN "afterstr" ELSE "instr"
      [] st = "afterstr" -> IF c = RBRACE THEN "closed"
                            ELSE IF IsSpace(c) THEN "afterstr" ELSE "bad"
      [] st = "closed"   -> IF IsSpace(c) THEN "closed" ELSE "bad"
      [] OTHER           -> "bad"

RECURSIVE JSONScan(_, _, _)
JSONScan(s, i, st) ==
    IF i > Len(s) THEN st ELSE JSONScan(s, i + 1, JSONStep(st, s[i]))

\* json.Unmarshal([]byte(jsonBuffer), &data) returns no error
JSONUnmarshalOK(s) == JSONScan(s, 1, "start") = "closed"

RECURSIVE IndexFrom(_, _, _)
IndexFrom(s, c, i) ==
    IF i > Len(s) THEN 0
    ELSE IF s[i] = c THEN i ELSE IndexFrom(s, c, i + 1)

\* the decoded map: the content of the object's string, <<>> for {}
JSONData(s) ==
    LET a == IndexFrom(s, QUOTE, 1) IN
    IF a = 0 THEN <<>>
    ELSE LET b == IndexFrom(s, QUOTE, a + 1) IN SubSeq(s, a + 1, b - 1)

(***************************************************************************)
(* types.UnmarshalMessage.  Type "s" stands for a well-formed system       *)
(* message, type "b" for a message of a known type with a field of the     *)
(* wrong JSON type (json.Unmarshal into the struct fails), every other     *)
(* type, the empty one included, is outside the closed set.                *)
(***************************************************************************)
NoMsg == [type |-> "", payload |-> <<>>]

UnmarshalMessage(data) ==
    LET typ == IF data = <<>> THEN "" ELSE data[1] IN
    CASE typ = "s" -> [err |-> "nil",
                       msg |-> [type |-> "s", payload |-> Tail(data)]]
      [] typ = "b" -> [err |-> "json_decode", msg |-> NoMsg]
      [] OTHER     -> [err |-> "message_parse", msg |-> NoMsg]

\* parseMessage: json.Marshal of the map, then UnmarshalMessage
parseMessage(data) == UnmarshalMessage(data)

(***************************************************************************)
(* One pass of the body of the reader's loop over a scanned line: the next *)
(* accumulator and what the pass hands on (nothing, a message for the      *)
(* message channel, an error for OnError).  bufio.ScanLines strips the     *)
(* newline, so strings.Split(line, "\n") yields the line itself.           *)
(***************************************************************************)
\* jsonBuffer = "" after a buffer that parsed (transport.go:565)
FrameResetOnParseKeep(acc) == acc
FrameResetOnParse(acc) == <<>>

\* jsonBuffer += jsonLine (transport.go:540)
AccumulateReplace(buf, jsonLine) == jsonLine
Accumulate(buf, jsonLine) == buf \o jsonLine

\* len(jsonBuffer) > t.maxBufferSize (transport.go:543)
OversizeNever(acc, maxSize) == FALSE
Oversize(acc, maxSize) == Len(acc) > maxSize

FrameLine(buf, line, maxSize) ==
    LET jsonLine == TrimSpace(line)
        acc == Accumulate(buf, jsonLine)
    IN  IF jsonLine = <<>>
        THEN [buf |-> buf, kind |-> "none", err |-> "nil", msg |-> NoMsg]
        ELSE IF Oversize(acc, maxSize)
        THEN [buf |-> <<>>, kind |-> "err", err |-> "json_decode", msg |-> NoMsg]
        ELSE IF JSONUnmarshalOK(acc)
        THEN LET r == parseMessage(JSONData(acc)) IN
             IF r.err = "nil"
             THEN [buf |-> FrameResetOnParse(acc), kind |-> "msg",
                   err |-> "nil", msg |-> r.msg]
             ELSE [buf |-> FrameResetOnParse(acc), kind |-> "err",
                   err |-> r.err, msg |-> NoMsg]
        ELSE [buf |-> acc, kind |-> "none", err |-> "nil", msg |-> NoMsg]

(***************************************************************************)
(* What the child writes to stdout.                                        *)
(***************************************************************************)
ObjSys == <<LBRACE, QUOTE, "s", QUOTE, RBRACE>>
ObjUnknown == <<LBRACE, QUOTE, "z", QUOTE, RBRACE>>
ObjBadField == <<LBRACE, QUOTE, "b", QUOTE, RBRACE>>
ObjSysPayload == <<LBRACE, QUOTE, "s", SP, "s", QUOTE, RBRACE>>
Objects == {ObjSys, ObjUnknown, ObjBadField, ObjSysPayload}

\* every way to cut s into non-empty chunks
RECURSIVE Splits(_)
Splits(s) ==
    {<<s>>} \cup
    UNION {{<<SubSeq(s, 1, k)>> \o rest :
                rest \in Splits(SubSeq(s, k + 1, Len(s)))} : k \in 1..(Len(s) - 1)}

\* a plan: the objects in order, and which one (0: none) is written in chunks
Plans(maxObjs) ==
    UNION {{[objs |-> o, k |-> 0, chunks |-> <<>>] : o \in [1..n -> Objects]}
           \cup
           UNION {UNION {{[objs |-> o, k |-> i, chunks |-> c] : c \in Splits(o[i])}
                         : i \in 1..n} : o \in [1..n -> Objects]}
           : n \in 0..maxObjs}

RECURSIVE LinesFrom(_, _)
LinesFrom(p, i) ==
    IF i > Len(p.objs) THEN <<>>
    ELSE (IF i = p.k THEN p.chunks ELSE <<p.objs[i]>>) \o LinesFrom(p, i + 1)

\* the lines of stdout, one per newline the child writes
LinesOf(p) == LinesFrom(p, 1)

\* the values of max_buffer_size the options set: from the length of the
\* shortest message up to MaxBuf
BufSizes == Len(ObjSys)..MaxBuf

(***************************************************************************)
(* State.                                                                  *)
(***************************************************************************)
VARIABLES
    \* SubprocessCLITransport
    cmd,               \* t.cmd: "nil", "unstarted" (Process nil), "started"
    ctxDone,           \* t.ctx is cancelled
    stdin,             \* t.stdin: "nil", "open", "closed"
    stdout,            \* t.stdout
    stderr,            \* t.stderr
    stdoutReader,      \* t.stdoutReader # nil
    stdinWriter,       \* t.stdinWriter # nil
    ready,             \* t.ready
    exitError,         \* t.exitError: "nil", "process", "write", "flush"
    messageChan,       \* t.messageChan: the buffered messages
    messageChanClosed,
    errorChan,         \* t.errorChan: the buffered errors
    errorChanClosed,
    maxBufferSize,     \* t.maxBufferSize
    stderrDone,        \* t.stderrDone is closed
    pipeStderr,        \* a stderr callback or debug-to-stderr is set
    \* t.mu
    muW,               \* who holds the exclusive lock: "none", "close"
    muR,               \* the Write calls holding the shared lock
    \* the child process and its pipes
    child,             \* "none", "running", "exited"
    exitCode,          \* its exit code; -1 when a signal ended it
    reaped,            \* whose Process.Wait got the status: "no", "reader", "close"
    childStdinOpen,    \* the child still holds the read end of its stdin
    plan,              \* what the child writes to stdout
    pos,               \* lines of stdout the scanner has returned
    childStdin,        \* what arrived on the child's stdin
    sigs,              \* signals sent to the child, in order
    \* the bufio.Writer on stdin
    wbuf,              \* buffered, unflushed text
    wbufErr,           \* its sticky error
    \* messageReaderLoop
    rpc,               \* "none", "start", "scan", "send", "onerror",
                       \* "postloop", "waitcall", "wait", "done"
    jsonBuffer,
    pending,           \* the message the loop is sending
    rerr,              \* the error the loop is offering
    rnext,             \* where the loop goes on after OnError
    \* stderrHandler, and the goroutine Close starts to wait for the child
    spc,               \* "none", "running", "done"
    cwait,             \* "none", "waiting", "done"
    \* callers
    wpc,               \* per Write call site: "idle", "writestring", "copy", "flush"
    wn,                \* the b.n its WriteString read
    wsnap,             \* what held when its current call began
    wres,              \* what its last call returned
    ncalls,            \* calls of Connect, Write, EndInput and Close made
    cpc,               \* Close: "idle", "wait", "finish"
    connectRes, endRes, closeRes,
    lastOp,            \* the call that returned last
    \* the consumer of ReadMessages, and history
    received,          \* messages received from the channel, in order
    readCtxDone,       \* the context given to ReadMessages is cancelled
    codec,             \* a value on its way through MarshalMessage / UnmarshalMessage
    offered,           \* errors handed to OnError, in order
    panicked,          \* "none", or the run-time panic that ended the program
    hist               \* events that have happened

tvars == <<cmd, ctxDone, stdin, stdout, stderr, stdoutReader, stdinWriter, ready,
           exitError, maxBufferSize, stderrDone, pipeStderr>>
chvars == <<messageChan, messageChanClosed, errorChan, errorChanClosed>>
lvars == <<muW, muR>>
cvars == <<child, exitCode, reaped, childStdinOpen, plan, pos, childStdin, sigs>>
bvars == <<wbuf, wbufErr>>
rvars == <<rpc, jsonBuffer, pending, rerr, rnext>>
gvars == <<spc, cwait>>
wvars == <<wpc, wn, wsnap, wres, ncalls>>
avars == <<cpc, connectRes, endRes, closeRes, lastOp>>
hvars == <<received, readCtxDone, codec, offered, panicked, hist>>
vars == <<tvars, chvars, lvars, cvars, bvars, rvars, gvars, wvars, avars, hvars>>

Writers == {"w1", "w2"}
NoSnap == [afterExit |-> FALSE, afterRecorded |-> FALSE, afterWriteFail |-> FALSE,
           open |-> FALSE, cancelled |-> FALSE]
NoRes == [msg |-> "none", kind |-> "none", cause |-> "none", wrote |-> FALSE,
          snap |-> NoSnap]

\* the program has not panicked
Running == panicked = "none"
\* t.mu.Lock() can be taken
LockFree == muW = "none" /\ muR = {}

StdoutLines == LinesOf(plan)

(***************************************************************************)
(* NewSubprocessCLITransport: the state after construction, for a child    *)
(* that will write the lines of plan p, with max_buffer_size m.            *)
(***************************************************************************)
\* no value is being encoded
NoCodec == [pc |-> "none"]

InitTransport(planSet, sizeSet, stderrSet) ==
    /\ cmd = "nil" /\ ctxDone = FALSE
    /\ stdin = "nil" /\ stdout = "nil" /\ stderr = "nil"
    /\ stdoutReader = FALSE /\ stdinWriter = FALSE
    /\ ready = FALSE /\ exitError = "nil"
    /\ messageChan = <<>> /\ messageChanClosed = FALSE
    /\ errorChan = <<>> /\ errorChanClosed = FALSE
    /\ maxBufferSize \in sizeSet
    /\ stderrDone = FALSE
    /\ pipeStderr \in stderrSet
    /\ muW = "none" /\ muR = {}
    /\ child = "none" /\ exitCode = 0 /\ reaped = "no" /\ childStdinOpen = FALSE
    /\ plan \in planSet
    /\ pos = 0 /\ childStdin = <<>> /\ sigs = <<>>
    /\ wbuf = <<>> /\ wbufErr = FALSE
    /\ rpc = "none" /\ jsonBuffer = <<>> /\ pending = NoMsg
    /\ rerr = "nil" /\ rnext = "none"
    /\ spc = "none" /\ cwait = "none"
    /\ wpc = [w \in Writers |-> "idle"]
    /\ wn = [w \in Writers |-> 0]
    /\ wsnap = [w \in Writers |-> NoSnap]
    /\ wres = [w \in Writers |-> NoRes]
    /\ ncalls = 0
    /\ cpc = "idle"
    /\ connectRes = "none" /\ endRes = "none" /\ closeRes = "none"
    /\ lastOp = "none"
    /\ received = <<>> /\ readCtxDone = FALSE
    /\ offered = <<>> /\ panicked = "none" /\ hist = {}

InitWith(planSet, sizeSet, stderrSet) ==
    InitTransport(planSet, sizeSet, stderrSet) /\ codec = NoCodec

(***************************************************************************)
(* OnError: a select over a send on errorChan, ctx.Done() and default.     *)
(* Go picks among the cases that can proceed; a send on a closed channel   *)
(* can proceed, and panics.                                                *)
(***************************************************************************)
OnErrorSendCase ==
    IF errorChanClosed THEN {"panic"}
    ELSE IF Len(errorChan) < ErrorChanCap THEN {"store"} ELSE {}

\* the select without its default case
OnErrorOutcomesNoDefault ==
    OnErrorSendCase \cup (IF ctxDone THEN {"drop"} ELSE {})

OnErrorOutcomes ==
    LET cases == OnErrorSendCase \cup (IF ctxDone THEN {"drop"} ELSE {})
    IN  IF cases = {} THEN {"drop"} ELSE cases

OnError(e, o) ==
    /\ o \in OnErrorOutcomes
    /\ offered' = Append(offered, e)
    /\ errorChan' = IF o = "store" THEN Append(errorChan, e) ELSE errorChan
    /\ panicked' = IF o = "panic" THEN "send_on_closed_channel" ELSE panicked
    /\ UNCHANGED errorChanClosed

(***************************************************************************)
(* Connect.  The outcome is what the environment does to this call: the    *)
(* binary is missing, a pipe cannot be made, the start fails, or all       *)
(* succeed.  cmd.Start fails when the command's context is already         *)
(* cancelled.                                                              *)
(***************************************************************************)
ConnectOutcomes == {"not_found", "stdin_pipe", "stdout_pipe", "stderr_pipe", "start", "ok"}

\* os.Stat fails with IsNotExist: the error returned, and a wrong kind of it
NotFoundErrorAsConnection == "cli_connection"
NotFoundError == "cli_not_found"

\* if t.cmd != nil { return nil }, with the mutation that drops the guard
AlreadyConnectedNever == FALSE
AlreadyConnected == cmd # "nil"

Connect(outcome) ==
    /\ Running /\ LockFree /\ cpc = "idle" /\ ncalls < MaxCalls
    /\ ncalls' = ncalls + 1
    /\ outcome \in ConnectOutcomes
    /\ outcome = "ok" => ~ctxDone
    /\ outcome = "stderr_pipe" => pipeStderr
    /\ lastOp' = "connect"
    /\ IF AlreadyConnected
       THEN /\ connectRes' = "nil"
            /\ UNCHANGED <<tvars, chvars, cvars, bvars, rvars, gvars, hist>>
       ELSE CASE outcome = "not_found" ->
                 /\ connectRes' = NotFoundError
                 /\ UNCHANGED <<tvars, chvars, cvars, bvars, rvars, gvars, hist>>
              [] outcome = "stdin_pipe" ->
                 /\ connectRes' = "cli_connection"
                 /\ cmd' = "unstarted" /\ stdin' = "nil"
                 /\ hist' = hist \cup {"connect_failed"}
                 /\ UNCHANGED <<ctxDone, stdout, stderr, stdoutReader, stdinWriter,
                                ready, exitError, maxBufferSize, stderrDone,
                                pipeStderr, chvars, cvars, bvars, rvars, gvars>>
              [] outcome = "stdout_pipe" ->
                 /\ connectRes' = "cli_connection"
                 /\ cmd' = "unstarted" /\ stdin' = "closed" /\ stdout' = "nil"
                 /\ hist' = hist \cup {"connect_failed"}
                 /\ UNCHANGED <<ctxDone, stderr, stdoutReader, stdinWriter,
                                ready, exitError, maxBufferSize, stderrDone,
                                pipeStderr, chvars, cvars, bvars, rvars, gvars>>
              [] outcome = "stderr_pipe" ->
                 /\ connectRes' = "cli_connection"
                 /\ cmd' = "unstarted" /\ stdin' = "closed" /\ stdout' = "closed"
                 /\ stderr' = "nil"
                 /\ hist' = hist \cup {"connect_failed"}
                 /\ UNCHANGED <<ctxDone, stdoutReader, stdinWriter,
                                ready, exitError, maxBufferSize, stderrDone,
                                pipeStderr, chvars, cvars, bvars, rvars, gvars>>
              [] outcome = "start" ->
                 /\ connectRes' = "cli_connection"
                 /\ cmd' = "unstarted" /\ stdin' = "closed" /\ stdout' = "closed"
                 /\ stderr' = IF pipeStderr THEN "closed" ELSE stderr
                 /\ hist' = hist \cup {"connect_failed"}
                 /\ UNCHANGED <<ctxDone, stdoutReader, stdinWriter,
                                ready, exitError, maxBufferSize, stderrDone,
                                pipeStderr, chvars, cvars, bvars, rvars, gvars>>
              [] outcome = "ok" ->
                 /\ connectRes' = "nil"
                 /\ cmd' = "started" /\ stdin' = "open" /\ stdout' = "open"
                 /\ stderr' = IF pipeStderr THEN "open" ELSE stderr
                 /\ stdoutReader' = TRUE /\ stdinWriter' = TRUE
                 /\ ready' = TRUE
                 /\ child' = "running" /\ childStdinOpen' = TRUE
                 /\ wbuf' = <<>> /\ wbufErr' = FALSE
                 /\ rpc' = "start"
                 /\ spc' = IF pipeStderr THEN "running" ELSE spc
                 /\ UNCHANGED <<ctxDone, exitError, maxBufferSize, stderrDone,
                                pipeStderr, chvars, exitCode, reaped, plan, pos,
                                childStdin, sigs, jsonBuffer, pending, rerr, rnext,
                                cwait, hist>>
    /\ UNCHANGED <<lvars, wpc, wn, wsnap, wres, cpc, endRes, closeRes, received, readCtxDone, codec,
                   offered, panicked>>

(***************************************************************************)
(* messageReaderLoop.                                                      *)
(***************************************************************************)
\* the deferred close(t.messageChan)
ReaderReturn ==
    /\ rpc' = "done"
    /\ messageChanClosed' = TRUE
    /\ UNCHANGED messageChan

\* lines 505-511: take and release the lock, then test t.ready and the reader
ReaderStart ==
    /\ Running /\ rpc = "start" /\ LockFree
    /\ IF ~ready \/ ~stdoutReader
       THEN ReaderReturn
       ELSE rpc' = "scan" /\ UNCHANGED <<messageChan, messageChanClosed>>
    /\ UNCHANGED <<tvars, errorChan, errorChanClosed, lvars, cvars, bvars,
                   jsonBuffer, pending, rerr, rnext, gvars, wvars, avars, hvars>>

\* lines 519-568: Scan returned a line
ReaderLine ==
    /\ Running /\ rpc = "scan" /\ pos < Len(StdoutLines)
    /\ LET line == StdoutLines[pos + 1]
           f == FrameLine(jsonBuffer, line, maxBufferSize)
       IN  IF Len(line) >= ScannerMaxTokenSize
           THEN \* bufio.ErrTooLong: Scan returns false, reader.Err() # nil
                /\ rpc' = "onerror" /\ rerr' = "cli_connection" /\ rnext' = "postloop"
                /\ UNCHANGED <<pos, jsonBuffer, pending, messageChan, messageChanClosed>>
           ELSE IF ctxDone
           THEN /\ ReaderReturn
                /\ pos' = pos + 1
                /\ UNCHANGED <<jsonBuffer, pending, rerr, rnext>>
           ELSE /\ pos' = pos + 1
                /\ jsonBuffer' = f.buf
                /\ UNCHANGED <<messageChan, messageChanClosed>>
                /\ CASE f.kind = "msg" ->
                        rpc' = "send" /\ pending' = f.msg /\ UNCHANGED <<rerr, rnext>>
                     [] f.kind = "err" ->
                        /\ rpc' = "onerror" /\ rerr' = f.err /\ rnext' = "scan"
                        /\ UNCHANGED pending
                     [] OTHER -> UNCHANGED <<rpc, pending, rerr, rnext>>
    /\ UNCHANGED <<tvars, errorChan, errorChanClosed, lvars, child, exitCode, reaped,
                   childStdinOpen, plan, childStdin, sigs, bvars, gvars, wvars,
                   avars, hvars>>

\* a send on t.messageChan cannot proceed: the buffer of the channel is full
MessageChanFullNever == FALSE
MessageChanFull == Len(messageChan) >= MessageChanCap

\* lines 557-561: select { case t.messageChan <- message: case <-t.ctx.Done(): return }
ReaderSend ==
    /\ Running /\ rpc = "send"
    /\ \/ /\ ~MessageChanFull
          /\ messageChan' = Append(messageChan, pending)
          /\ rpc' = "scan"
          /\ UNCHANGED messageChanClosed
       \/ /\ ctxDone
          /\ ReaderReturn
    /\ pending' = NoMsg
    /\ UNCHANGED <<tvars, errorChan, errorChanClosed, lvars, cvars, bvars,
                   jsonBuffer, rerr, rnext, gvars, wvars, avars, hvars>>

\* the loop's calls of t.OnError
ReaderOnError ==
    /\ Running /\ rpc = "onerror"
    /\ \E o \in OnErrorOutcomes : OnError(rerr, o)
    /\ IF rnext = "done"
       THEN ReaderReturn
       ELSE rpc' = rnext /\ UNCHANGED <<messageChan, messageChanClosed>>
    /\ rerr' = "nil" /\ rnext' = "none"
    /\ UNCHANGED <<tvars, lvars, cvars, bvars, jsonBuffer, pending, gvars, wvars,
                   avars, received, readCtxDone, codec, hist>>

\* Scan returns false at the end of stdout, which the child's exit closes;
\* reader.Err() is nil at EOF
ReaderEOF ==
    /\ Running /\ rpc = "scan" /\ pos = Len(StdoutLines) /\ child = "exited"
    /\ rpc' = "postloop"
    /\ UNCHANGED <<tvars, chvars, lvars, cvars, bvars, jsonBuffer, pending, rerr,
                   rnext, gvars, wvars, avars, hvars>>

\* line 577: if t.cmd != nil && t.cmd.Process != nil, read without the lock
ReaderCheckCmd ==
    /\ Running /\ rpc = "postloop"
    /\ IF cmd = "started"
       THEN rpc' = "waitcall" /\ UNCHANGED <<messageChan, messageChanClosed>>
       ELSE ReaderReturn
    /\ UNCHANGED <<tvars, errorChan, errorChanClosed, lvars, cvars, bvars,
                   jsonBuffer, pending, rerr, rnext, gvars, wvars, avars, hvars>>

\* line 578: t.cmd.Process.Wait() loads t.cmd again; Close may have set it to nil
ReaderWaitCall ==
    /\ Running /\ rpc = "waitcall"
    /\ IF cmd = "started"
       THEN rpc' = "wait" /\ UNCHANGED panicked
       ELSE rpc' = "done" /\ panicked' = "nil_dereference"
    /\ UNCHANGED <<tvars, chvars, lvars, cvars, bvars, jsonBuffer, pending, rerr,
                   rnext, gvars, wvars, avars, received, readCtxDone, codec, offered, hist>>

\* lines 578-585: Wait returns once the child has exited; it fails when the
\* status was already collected
ReaderWaitReturn ==
    /\ Running /\ rpc = "wait" /\ child = "exited"
    /\ IF reaped = "no"
       THEN /\ reaped' = "reader"
            /\ IF exitCode # 0
               THEN /\ exitError' = "process"
                    /\ rpc' = "onerror" /\ rerr' = "process" /\ rnext' = "done"
                    /\ hist' = hist \cup {"exit_recorded"}
                    /\ UNCHANGED <<messageChan, messageChanClosed>>
               ELSE /\ ReaderReturn
                    /\ UNCHANGED <<exitError, rerr, rnext, hist>>
       ELSE /\ ReaderReturn
            /\ UNCHANGED <<reaped, exitError, rerr, rnext, hist>>
    /\ UNCHANGED <<cmd, ctxDone, stdin, stdout, stderr, stdoutReader, stdinWriter,
                   ready, maxBufferSize, stderrDone, pipeStderr, errorChan,
                   errorChanClosed, lvars, child, exitCode, childStdinOpen, plan,
                   pos, childStdin, sigs, bvars, jsonBuffer, pending, gvars, wvars,
                   avars, received, readCtxDone, codec, offered, panicked>>

(***************************************************************************)
(* The consumer ranging over ReadMessages().                               *)
(***************************************************************************)
Consume ==
    /\ Running /\ messageChan # <<>>
    /\ received' = Append(received, Head(messageChan))
    /\ messageChan' = Tail(messageChan)
    /\ UNCHANGED <<tvars, messageChanClosed, errorChan, errorChanClosed, lvars,
                   cvars, bvars, rvars, gvars, wvars, avars, readCtxDone, codec,
                   offered, panicked, hist>>

(***************************************************************************)
(* The child.                                                              *)
(***************************************************************************)
\* the child exits on its own, with code 0 or 1
ChildExit(code) ==
    /\ Running /\ child = "running"
    /\ child' = "exited" /\ exitCode' = code /\ childStdinOpen' = FALSE
    /\ hist' = IF code # 0 THEN hist \cup {"nonzero_exit"} ELSE hist
    /\ UNCHANGED <<tvars, chvars, lvars, reaped, plan, pos, childStdin, sigs, bvars,
                   rvars, gvars, wvars, avars, received, readCtxDone, codec, offered, panicked>>

(***************************************************************************)
(* The framer specification: a connected transport, the reader, the        *)
(* consumer and a child that writes any plan and then exits.               *)
(***************************************************************************)
InitFramer == InitWith(Plans(MaxObjs), BufSizes, {FALSE})

ChildExitClean == ChildExit(0)

\* the caller connects once, and the connection succeeds
ConnectOK == ~AlreadyConnected /\ Connect("ok")

NextFramer ==
    \/ ConnectOK
    \/ ReaderStart
    \/ ReaderLine
    \/ ReaderSend
    \/ ReaderOnError
    \/ ReaderEOF
    \/ ReaderCheckCmd
    \/ ReaderWaitCall
    \/ ReaderWaitReturn
    \/ Consume
    \/ ChildExitClean

SpecFramer == InitFramer /\ [][NextFramer]_vars

(***************************************************************************)
(* Write.  The call holds t.mu.RLock() from its first line to its return,  *)
(* so it excludes Connect, EndInput and Close, not another Write.          *)
(***************************************************************************)
NL == "\n"
\* data + "\n": each call site writes a line of its own
Line(w) == <<w, NL>>

\* cmd.ProcessState is set by cmd.Wait, which the transport never calls
ProcessStateExited == FALSE

\* if t.exitError != nil, with the mutation that skips the check
ExitErrorIgnored == FALSE
ExitErrorSet == exitError # "nil"

\* lines 626-642: why Write returns before it writes, or "pass"
WriteRejection ==
    IF ~ready \/ ~stdinWriter THEN "not_ready"
    ELSE IF cmd # "nil" /\ ProcessStateExited THEN "terminated"
    ELSE IF ExitErrorSet THEN "exit_error"
    ELSE "pass"

\* what holds when Write is called; cancelled: the caller's ctx is already done
WriteSnap(cancelled) ==
    [afterExit |-> child = "exited" /\ exitCode # 0,
     afterRecorded |-> "exit_recorded" \in hist,
     afterWriteFail |-> "write_failed" \in hist,
     open |-> ready /\ stdinWriter,
     cancelled |-> cancelled]

\* lines 622-642; Write does not read its ctx parameter
WriteCall(w, cancelled) ==
    /\ Running /\ wpc[w] = "idle" /\ muW = "none" /\ ncalls < MaxCalls
    /\ ncalls' = ncalls + 1
    /\ IF WriteRejection # "pass"
       THEN /\ wres' = [wres EXCEPT ![w] =
                    [msg |-> WriteRejection, kind |-> "cli_connection",
                     cause |-> IF WriteRejection = "exit_error" THEN exitError ELSE "nil",
                     wrote |-> FALSE, snap |-> WriteSnap(cancelled)]]
            /\ lastOp' = "write"
            /\ UNCHANGED <<wpc, wn, wsnap, muR>>
       ELSE /\ wpc' = [wpc EXCEPT ![w] = "writestring"]
            /\ wsnap' = [wsnap EXCEPT ![w] = WriteSnap(cancelled)]
            /\ muR' = muR \cup {w}
            /\ UNCHANGED <<wres, wn, lastOp>>
    /\ UNCHANGED <<tvars, chvars, muW, cvars, bvars, rvars, gvars, cpc, connectRes,
                   endRes, closeRes, hvars>>

\* a Write whose caller has not cancelled its context
WriteEnter(w) == WriteCall(w, FALSE)

\* a failed write or flush: lines 646-649 and 654-657, then the deferred RUnlock
WriteFail(w, what) ==
    /\ ready' = FALSE
    /\ exitError' = what
    /\ wres' = [wres EXCEPT ![w] =
            [msg |-> what, kind |-> "cli_connection", cause |-> "io",
             wrote |-> FALSE, snap |-> wsnap[w]]]
    /\ hist' = hist \cup {"write_failed"}
    /\ wpc' = [wpc EXCEPT ![w] = "idle"]
    /\ muR' = muR \ {w}
    /\ lastOp' = "write"

\* bufio.Writer.WriteString: the sticky error, then the offset b.n it copies to
WriteStringBegin(w) ==
    /\ Running /\ wpc[w] = "writestring"
    /\ IF wbufErr
       THEN /\ WriteFail(w, "write")
            /\ UNCHANGED wn
       ELSE /\ wn' = [wn EXCEPT ![w] = Len(wbuf)]
            /\ wpc' = [wpc EXCEPT ![w] = "copy"]
            /\ UNCHANGED <<ready, exitError, wres, hist, muR, lastOp>>
    /\ UNCHANGED <<cmd, ctxDone, stdin, stdout, stderr, stdoutReader, stdinWriter,
                   maxBufferSize, stderrDone, pipeStderr, chvars, muW, cvars, bvars,
                   rvars, gvars, wsnap, ncalls, cpc, connectRes, endRes, closeRes,
                   received, readCtxDone, codec, offered, panicked>>

\* n := copy(b.buf[b.n:], s); b.n += n, with the offset read before
CopyAt(buf, n, line) ==
    [i \in 1..(Len(buf) + Len(line)) |->
        IF i > n /\ i <= n + Len(line) THEN line[i - n]
        ELSE IF i <= Len(buf) THEN buf[i] ELSE "?"]

WriteStringEnd(w) ==
    /\ Running /\ wpc[w] = "copy"
    /\ wbuf' = CopyAt(wbuf, wn[w], Line(w))
    /\ wpc' = [wpc EXCEPT ![w] = "flush"]
    /\ UNCHANGED <<tvars, chvars, lvars, cvars, wbufErr, rvars, gvars, wn, wsnap,
                   wres, ncalls, avars, hvars>>

\* bufio.Writer.Flush on the pipe to the child: what it does to the buffer
\* and the pipe, and whether it fails (the pipe has no reader left)
FlushFails == wbufErr \/ (wbuf # <<>> /\ ~childStdinOpen)
FlushEffect ==
    /\ wbufErr' = FlushFails
    /\ IF FlushFails
       THEN UNCHANGED <<wbuf, childStdin>>
       ELSE wbuf' = <<>> /\ childStdin' = childStdin \o wbuf

WriteFlush(w) ==
    /\ Running /\ wpc[w] = "flush"
    /\ FlushEffect
    /\ IF FlushFails
       THEN WriteFail(w, "flush")
       ELSE /\ wres' = [wres EXCEPT ![w] =
                    [msg |-> "ok", kind |-> "nil", cause |-> "nil",
                     wrote |-> TRUE, snap |-> wsnap[w]]]
            /\ wpc' = [wpc EXCEPT ![w] = "idle"]
            /\ muR' = muR \ {w}
            /\ lastOp' = "write"
            /\ UNCHANGED <<ready, exitError, hist>>
    /\ UNCHANGED <<cmd, ctxDone, stdin, stdout, stderr, stdoutReader, stdinWriter,
                   maxBufferSize, stderrDone, pipeStderr, chvars, muW, child,
                   exitCode, reaped, childStdinOpen, plan, pos, sigs, rvars, gvars,
                   wn, wsnap, ncalls, cpc, connectRes, endRes, closeRes, received, readCtxDone, codec,
                   offered, panicked>>

(***************************************************************************)
(* EndInput.                                                               *)
(***************************************************************************)
EndInput ==
    /\ Running /\ LockFree /\ cpc = "idle" /\ ncalls < MaxCalls
    /\ ncalls' = ncalls + 1
    /\ IF stdinWriter
       THEN FlushEffect /\ stdinWriter' = FALSE
       ELSE UNCHANGED <<wbuf, wbufErr, childStdin, stdinWriter>>
    /\ CASE stdin = "open"   -> stdin' = "nil" /\ endRes' = "nil"
         [] stdin = "closed" -> stdin' = stdin /\ endRes' = "cli_connection"
         [] OTHER            -> stdin' = stdin /\ endRes' = "nil"
    /\ lastOp' = "endinput"
    /\ UNCHANGED <<cmd, ctxDone, stdout, stderr, stdoutReader, ready, exitError,
                   maxBufferSize, stderrDone, pipeStderr, chvars, lvars, child,
                   exitCode, reaped, childStdinOpen, plan, pos, sigs, rvars, gvars,
                   wpc, wn, wsnap, wres, cpc, connectRes, closeRes, hvars>>

(***************************************************************************)
(* Close.  It holds t.mu.Lock() from its first line to its return; between *)
(* the SIGTERM and the clean-up it waits for the child, at most 5 seconds. *)
(***************************************************************************)
\* if !t.ready { return nil }, with the mutation that drops the guard
CloseSkipsNever == FALSE
CloseSkips == ~ready

\* lines 706-750: up to the start of the wait for the child.  The wait for
\* stderrDone (at most 5 seconds) changes no state of the transport.
CloseEnter ==
    /\ Running /\ LockFree /\ cpc = "idle" /\ ncalls < MaxCalls
    /\ ncalls' = ncalls + 1
    /\ IF CloseSkips
       THEN /\ closeRes' = "nil" /\ lastOp' = "close"
            /\ hist' = hist \cup (IF child # "none" THEN {"closed_after_spawn"} ELSE {})
                            \cup (IF errorChanClosed THEN {"closed_again"} ELSE {})
            /\ UNCHANGED <<tvars, bvars, childStdin, sigs, cwait, cpc, muW>>
       ELSE /\ ready' = FALSE
            /\ ctxDone' = TRUE
            /\ IF stdinWriter
               THEN FlushEffect /\ stdinWriter' = FALSE
               ELSE UNCHANGED <<wbuf, wbufErr, childStdin, stdinWriter>>
            /\ stdin' = "nil"
            /\ stderr' = "nil"
            /\ muW' = "close"
            /\ IF cmd = "started" /\ ~ProcessStateExited /\ reaped = "no"
               THEN \* Signal(SIGTERM) succeeds: wait for the child
                    /\ sigs' = Append(sigs, "TERM")
                    /\ cwait' = "waiting"
                    /\ cpc' = "wait"
               ELSE \* no process, or Signal fails: the process is finished
                    /\ cpc' = "finish"
                    /\ UNCHANGED <<sigs, cwait>>
            /\ UNCHANGED <<cmd, stdout, stdoutReader, exitError, maxBufferSize,
                           stderrDone, pipeStderr, closeRes, lastOp, hist>>
    /\ UNCHANGED <<chvars, muR, child, exitCode, reaped, childStdinOpen, plan, pos,
                   rvars, spc, wpc, wn, wsnap, wres, connectRes, endRes, received, readCtxDone, codec,
                   offered, panicked>>

\* the goroutine of lines 747-750: t.cmd.Process.Wait(), then done <- err
CloseWaitGoroutine ==
    /\ Running /\ cwait = "waiting" /\ child = "exited"
    /\ cwait' = "done"
    /\ reaped' = IF reaped = "no" THEN "close" ELSE reaped
    /\ UNCHANGED <<tvars, chvars, lvars, child, exitCode, childStdinOpen, plan, pos,
                   childStdin, sigs, bvars, rvars, spc, wvars, avars, hvars>>

\* case <-done
CloseWaitDone ==
    /\ Running /\ cpc = "wait" /\ cwait = "done"
    /\ cpc' = "finish"
    /\ UNCHANGED <<tvars, chvars, lvars, cvars, bvars, rvars, gvars, wvars,
                   connectRes, endRes, closeRes, lastOp, hvars>>

\* case <-time.After(5 * time.Second): t.cmd.Process.Kill()
CloseTimeout ==
    /\ Running /\ cpc = "wait"
    /\ cpc' = "finish"
    /\ sigs' = Append(sigs, "KILL")
    /\ IF child = "running"
       THEN child' = "exited" /\ exitCode' = -1 /\ childStdinOpen' = FALSE
       ELSE UNCHANGED <<child, exitCode, childStdinOpen>>
    /\ UNCHANGED <<tvars, chvars, lvars, reaped, plan, pos, childStdin, bvars,
                   rvars, gvars, wvars, connectRes, endRes, closeRes, lastOp, hvars>>

\* lines 763-771: the clean-up, close(t.errorChan), the deferred Unlock
CloseFinish ==
    /\ Running /\ cpc = "finish"
    /\ cmd' = "nil" /\ stdoutReader' = FALSE /\ exitError' = "nil"
    /\ IF errorChanClosed
       THEN panicked' = "close_of_closed_channel" /\ UNCHANGED errorChanClosed
       ELSE errorChanClosed' = TRUE /\ UNCHANGED panicked
    /\ muW' = "none" /\ cpc' = "idle"
    /\ closeRes' = "nil" /\ lastOp' = "close"
    /\ hist' = hist \cup {"closed_after_spawn"}
    /\ UNCHANGED <<ctxDone, stdin, stdout, stderr, stdinWriter, ready,
                   maxBufferSize, stderrDone, pipeStderr, messageChan,
                   messageChanClosed, errorChan, muR, cvars, bvars, rvars, gvars,
                   wvars, connectRes, endRes, received, readCtxDone, codec, offered>>

(***************************************************************************)
(* stderrHandler: it ends, closing stderrDone, when its scanner stops.     *)
(***************************************************************************)
StderrHandlerExit ==
    /\ Running /\ spc = "running"
    /\ child = "exited" \/ stderr # "open"
    /\ spc' = "done" /\ stderrDone' = TRUE
    /\ UNCHANGED <<cmd, ctxDone, stdin, stdout, stderr, stdoutReader, stdinWriter,
                   ready, exitError, maxBufferSize, pipeStderr, chvars, lvars, cvars,
                   bvars, rvars, cwait, wvars, avars, hvars>>

(***************************************************************************)
(* The child and the operating system.                                     *)
(***************************************************************************)
\* exec.CommandContext: once t.ctx is done, os/exec kills the child
CtxKill ==
    /\ Running /\ ctxDone /\ child = "running"
    /\ child' = "exited" /\ exitCode' = -1 /\ childStdinOpen' = FALSE
    /\ sigs' = Append(sigs, "KILL_CTX")
    /\ UNCHANGED <<tvars, chvars, lvars, reaped, plan, pos, childStdin, bvars, rvars,
                   gvars, wvars, avars, hvars>>

\* SIGTERM ends a child that does not handle it
ChildTerminated ==
    /\ Running /\ child = "running"
    /\ \E i \in 1..Len(sigs) : sigs[i] = "TERM"
    /\ child' = "exited" /\ exitCode' = -1 /\ childStdinOpen' = FALSE
    /\ UNCHANGED <<tvars, chvars, lvars, reaped, plan, pos, childStdin, sigs, bvars,
                   rvars, gvars, wvars, avars, hvars>>

\* the child closes its stdin and keeps running
ChildCloseStdin ==
    /\ Running /\ child = "running" /\ childStdinOpen
    /\ childStdinOpen' = FALSE
    /\ UNCHANGED <<tvars, chvars, lvars, child, exitCode, reaped, plan, pos,
                   childStdin, sigs, bvars, rvars, gvars, wvars, avars, hvars>>

(***************************************************************************)
(* The transport with its callers: any interleaving of Connect, Write from *)
(* two goroutines, EndInput and Close with the reader, the consumer and    *)
(* the child.                                                              *)
(***************************************************************************)
LifecyclePlans ==
    {[objs |-> o, k |-> 0, chunks |-> <<>>] : o \in {<<ObjSys>>, <<ObjUnknown>>}}

Init == InitWith(LifecyclePlans, {MaxBuf}, {TRUE})

Next ==
    \/ \E outcome \in ConnectOutcomes : Connect(outcome)
    \/ \E w \in Writers : WriteEnter(w)
    \/ \E w \in Writers : WriteStringBegin(w)
    \/ \E w \in Writers : WriteStringEnd(w)
    \/ \E w \in Writers : WriteFlush(w)
    \/ EndInput
    \/ CloseEnter
    \/ CloseWaitGoroutine
    \/ CloseWaitDone
    \/ CloseTimeout
    \/ CloseFinish
    \/ ReaderStart
    \/ ReaderLine
    \/ ReaderSend
    \/ ReaderOnError
    \/ ReaderEOF
    \/ ReaderCheckCmd
    \/ ReaderWaitCall
    \/ ReaderWaitReturn
    \/ StderrHandlerExit
    \/ Consume
    \/ \E code \in {0, 1} : ChildExit(code)
    \/ CtxKill
    \/ ChildTerminated
    \/ ChildCloseStdin

Spec == Init /\ [][Next]_vars

(***************************************************************************)
(* What the consumer has been given and what OnError has been offered,     *)
(* the message or error the reader holds at this moment included.          *)
(***************************************************************************)
Delivered ==
    received \o messageChan \o (IF rpc = "send" THEN <<pending>> ELSE <<>>)

OfferedAll == offered \o (IF rpc = "onerror" THEN <<rerr>> ELSE <<>>)

\* the message an object of the child decodes to, as a sequence of 0 or 1
ObjMessage(o) ==
    CASE o = ObjSys        -> <<[type |-> "s", payload |-> <<>>]>>
      [] o = ObjSysPayload -> <<[type |-> "s", payload |-> <<SP, "s">>]>>
      [] OTHER             -> <<>>

\* the error the decoding of an object yields, as a sequence of 0 or 1
ObjError(o) ==
    CASE o = ObjUnknown  -> <<"message_parse">>
      [] o = ObjBadField -> <<"json_decode">>
      [] OTHER           -> <<>>

RECURSIVE MessagesOf(_)
MessagesOf(os) ==
    IF os = <<>> THEN <<>> ELSE ObjMessage(Head(os)) \o MessagesOf(Tail(os))

RECURSIVE ErrorsOf(_)
ErrorsOf(os) ==
    IF os = <<>> THEN <<>> ELSE ObjError(Head(os)) \o ErrorsOf(Tail(os))

\* every line of stdout holds one complete object
WholeLines == plan.k = 0
LinesFit == \A i \in 1..Len(plan.objs) : Len(plan.objs[i]) <= maxBufferSize
LinesRead == SubSeq(plan.objs, 1, pos)

\* the chunks of the plan's split object, trimmed and joined
RECURSIVE TrimConcat(_)
TrimConcat(cs) ==
    IF cs = <<>> THEN <<>> ELSE TrimSpace(Head(cs)) \o TrimConcat(Tail(cs))

\* the child writes one message object, in one or more chunks
OneMessageObject == Len(plan.objs) = 1 /\ ObjMessage(plan.objs[1]) # <<>>
ChunksDecode ==
    LET t == TrimConcat(StdoutLines) IN
    /\ JSONUnmarshalOK(t)
    /\ UnmarshalMessage(JSONData(t)).err = "nil"
    /\ Len(t) <= maxBufferSize

(***************************************************************************)
(* C1.  The claim as made: for a stream of lines each holding one complete *)
(* JSON object, what is received is exactly the messages of the lines read *)
(* so far, in order, and a line of unknown type yields only an error.      *)
(* The code drops a line longer than max_buffer_size, so this is violated. *)
(***************************************************************************)
C1_Original ==
    WholeLines => Delivered = MessagesOf(LinesRead)

\* C1 as amended: for a stream of lines each holding one complete JSON object
\* of at most max_buffer_size bytes, the messages received are exactly the
\* lines read so far that decode to a message, in the order written, and the
\* errors offered are exactly those of the lines that do not decode.
C1_OrderedDelivery ==
    (WholeLines /\ LinesFit) =>
        /\ Delivered = MessagesOf(LinesRead)
        /\ OfferedAll = ErrorsOf(LinesRead)

\* an unknown-type line, then a message line: the error is offered and the
\* message after it is received
C1_Witness ==
    /\ WholeLines /\ LinesFit
    /\ plan.objs = <<ObjUnknown, ObjSys>>
    /\ received = MessagesOf(<<ObjSys>>)
    /\ offered = <<"message_parse">>

(***************************************************************************)
(* C2.  The claim as made: one message object written in N chunks, for     *)
(* every choice of split points, yields exactly one message and no error   *)
(* once the last chunk is read.  Violated by an object longer than         *)
(* max_buffer_size.                                                        *)
(***************************************************************************)
C2_Original ==
    (OneMessageObject /\ pos = Len(StdoutLines)) =>
        (Len(Delivered) = 1 /\ OfferedAll = <<>>)

\* C2 as amended: when the whitespace-trimmed chunks of the object join to a
\* decodable message of at most max_buffer_size bytes, no message is delivered
\* before the last chunk, exactly one after it, and no error is offered.
C2_PartialAccumulation ==
    (OneMessageObject /\ ChunksDecode) =>
        /\ OfferedAll = <<>>
        /\ Len(Delivered) = (IF pos = Len(StdoutLines) THEN 1 ELSE 0)

\* the object written one byte per chunk (N = length) and received
C2_Witness ==
    /\ OneMessageObject /\ ChunksDecode
    /\ plan.k = 1 /\ Len(plan.chunks) = Len(plan.objs[1])
    /\ Len(plan.objs[1]) > Len(ObjSys)
    /\ Len(received) = 1

(***************************************************************************)
(* C3.  The claim: the child emits one well-formed object longer than      *)
(* max_buffer_size, on one line or over several, then valid message lines; *)
(* exactly one json-decode error is offered, no message is delivered for   *)
(* the object, and every message line after it is delivered.  Violated     *)
(* when the accumulator overflows before the object's last chunk: the rest *)
(* of the object stays in the accumulator and swallows the next lines.     *)
(***************************************************************************)
OversizeThenValid ==
    /\ Len(plan.objs) >= 1
    /\ plan.k \in {0, 1}
    /\ Len(TrimConcat(IF plan.k = 1 THEN plan.chunks ELSE <<plan.objs[1]>>))
           > maxBufferSize
    /\ \A i \in 2..Len(plan.objs) :
           ObjMessage(plan.objs[i]) # <<>> /\ Len(plan.objs[i]) <= maxBufferSize

C3_OversizePolicy ==
    (OversizeThenValid /\ pos = Len(StdoutLines)) =>
        /\ OfferedAll = <<"json_decode">>
        /\ Delivered = MessagesOf(Tail(plan.objs))

(***************************************************************************)
(* C4.  The claim: once Connect has spawned a child, a Close that has      *)
(* returned has cancelled the context and has terminated or signalled the  *)
(* child, also when a failed Write had marked the transport not ready.     *)
(* Violated: Close returns at once when ready is false.                    *)
(***************************************************************************)
Signalled == \E i \in 1..Len(sigs) : sigs[i] \in {"TERM", "KILL", "KILL_CTX"}

C4_CloseReleasesChild ==
    "closed_after_spawn" \in hist => (ctxDone /\ (child = "exited" \/ Signalled))

\* C5: every Close call, in any state and however many were made before,
\* returns nil and leaves ready false, and the error channel is never closed
\* a second time.
C5_CloseIdempotent ==
    /\ lastOp = "close" => (closeRes = "nil" /\ ~ready)
    /\ panicked # "close_of_closed_channel"

\* a Close that follows a Close which closed the error channel
C5_Witness ==
    /\ lastOp = "close" /\ "closed_again" \in hist
    /\ errorChanClosed /\ closeRes = "nil"

FatalErrors == {"connect_failed", "write_failed", "exit_recorded"}

C7_FatalNotReady ==
    hist \cap FatalErrors # {} => ~ready

\* C8: once a Write has failed in WriteString or Flush, ready is false in
\* every later state, whatever is called, and every Write called afterwards
\* returns a cli-connection error and writes nothing.
C8_WriteFailurePermanent ==
    /\ "write_failed" \in hist => ~ready
    /\ \A w \in Writers :
           wres[w].snap.afterWriteFail =>
               (wres[w].kind = "cli_connection" /\ ~wres[w].wrote)

\* a Write rejected after an earlier Write failed and Connect was called again
C8_Witness ==
    /\ lastOp = "write" /\ ncalls = MaxCalls /\ connectRes = "nil"
    /\ \E w \in Writers :
           wres[w].snap.afterWriteFail /\ wres[w].msg = "not_ready"

(***************************************************************************)
(* C9.  The claim: no two Write calls are between their entry and their    *)
(* return at the same time.  Violated: Write takes the read lock.          *)
(***************************************************************************)
C9_WriteMutex ==
    Cardinality({w \in Writers : wpc[w] # "idle"}) <= 1

(***************************************************************************)
(* C10.  The claim: OnError never panics by sending on the error channel   *)
(* that Close has closed.  Violated: the select of OnError may choose the  *)
(* send.                                                                   *)
(***************************************************************************)
C10_OnErrorNeverPanics ==
    panicked # "send_on_closed_channel"

(***************************************************************************)
(* The reader with a child whose lines yield errors: more errors than the  *)
(* error channel holds, and nobody receives from errorChan (the transport  *)
(* has no accessor for it).                                                *)
(***************************************************************************)
SeqsUpTo(S, n) == UNION {[1..m -> S] : m \in 0..n}

ErrorPlans ==
    {[objs |-> o, k |-> 0, chunks |-> <<>>] :
        o \in SeqsUpTo({ObjSys, ObjUnknown, ObjBadField}, ErrorChanCap + 1)}

InitErrors == InitWith(ErrorPlans, {MaxBuf}, {FALSE})

ChildExitFail == ChildExit(1)

NextErrors ==
    \/ ConnectOK
    \/ ReaderStart
    \/ ReaderLine
    \/ ReaderSend
    \/ ReaderOnError
    \/ ReaderEOF
    \/ ReaderCheckCmd
    \/ ReaderWaitCall
    \/ ReaderWaitReturn
    \/ Consume
    \/ ChildExitClean
    \/ ChildExitFail

SpecErrors == InitErrors /\ [][NextErrors]_vars

\* C11: while the transport is open, errorChan holds exactly the first
\* ErrorChanCap errors offered (stored while there is room, dropped after),
\* and the reader standing at an OnError call can always take it.
C11_OnErrorNonBlocking ==
    /\ Len(errorChan) <= ErrorChanCap
    /\ (~ctxDone /\ ~errorChanClosed) =>
           errorChan = SubSeq(offered, 1,
                              IF Len(offered) < ErrorChanCap THEN Len(offered)
                              ELSE ErrorChanCap)
    /\ rpc = "onerror" => OnErrorOutcomes # {}

\* more errors offered than the channel holds, and the reader has finished
C11_Witness ==
    /\ Len(offered) > ErrorChanCap
    /\ Len(errorChan) = ErrorChanCap
    /\ rpc = "done"

(***************************************************************************)
(* C12.  The claim: a Connect that returns nil on a transport on which     *)
(* Close has not been called leaves the transport ready, also after an     *)
(* earlier Connect failed with a pipe or spawn error.  Violated: the       *)
(* failed Connect leaves t.cmd set, and the next one returns nil at        *)
(* 'if t.cmd != nil' without starting anything.                            *)
(***************************************************************************)
C12_ConnectMeansReady ==
    (lastOp = "connect" /\ connectRes = "nil" /\ closeRes = "none") => ready

(***************************************************************************)
(* C13.  The claim as made: a Connect call that finds no binary at         *)
(* cli_path returns cli-not-found and changes nothing.  Violated on a      *)
(* transport whose t.cmd is already set: Connect returns nil before it     *)
(* looks at the path.  Stated for the transports on which no Connect has   *)
(* failed, where a set t.cmd means a child was started.                    *)
(***************************************************************************)
NoSideEffect ==
    UNCHANGED <<tvars, chvars, lvars, cvars, bvars, rvars, gvars, wpc, wn, wsnap,
                wres, cpc, endRes, closeRes, received, readCtxDone, codec, offered, panicked, hist>>

InitTerm == InitWith(LifecyclePlans, {MaxBuf}, {FALSE})

ReaderStep ==
    \/ ReaderStart
    \/ ReaderLine
    \/ ReaderSend
    \/ ReaderOnError
    \/ ReaderEOF
    \/ ReaderCheckCmd
    \/ ReaderWaitCall
    \/ ReaderWaitReturn

CloseStep ==
    \/ CloseWaitGoroutine
    \/ CloseWaitDone
    \/ CloseTimeout
    \/ CloseFinish

NextTerm ==
    \/ \E outcome \in ConnectOutcomes \ {"stderr_pipe"} : Connect(outcome)
    \/ CloseEnter
    \/ CloseStep
    \/ ReaderStep
    \/ Consume
    \/ \E code \in {0, 1} : ChildExit(code)
    \/ CtxKill
    \/ ChildTerminated

SpecTerm ==
    /\ InitTerm /\ [][NextTerm]_vars
    /\ WF_vars(ReaderStep) /\ WF_vars(CloseStep) /\ WF_vars(CtxKill)
    /\ WF_vars(Consume)

(***************************************************************************)
(* C14.  The claim: once the child's stdout has reached EOF, or a Connect  *)
(* has failed with a pipe or spawn error, or Close has returned, the       *)
(* channel of ReadMessages is eventually closed.  Violated: only the       *)
(* reader closes the channel, and a failed Connect starts no reader.       *)
(***************************************************************************)
StdoutEOF == child = "exited" /\ pos = Len(StdoutLines)

C14_ChannelEventuallyClosed ==
    (StdoutEOF \/ "connect_failed" \in hist \/ closeRes = "nil")
        ~> (messageChanClosed \/ ~Running)

(***************************************************************************)
(* The transport with callers that pass their own contexts: a Write may be *)
(* called with a context that is already cancelled, and the context given  *)
(* to ReadMessages may be cancelled while the consumer receives.           *)
(***************************************************************************)
InitCancel == InitWith(LifecyclePlans, {MaxBuf}, {FALSE})

\* the caller cancels the context it gave to ReadMessages
CancelReadCtx ==
    /\ Running /\ ~readCtxDone
    /\ readCtxDone' = TRUE
    /\ UNCHANGED <<tvars, chvars, lvars, cvars, bvars, rvars, gvars, wvars, avars,
                   received, codec, offered, panicked, hist>>

NextCancel ==
    \/ ConnectOK
    \/ \E w \in Writers, cancelled \in BOOLEAN : WriteCall(w, cancelled)
    \/ \E w \in Writers : WriteStringBegin(w)
    \/ \E w \in Writers : WriteStringEnd(w)
    \/ \E w \in Writers : WriteFlush(w)
    \/ ReaderStep
    \/ Consume
    \/ CancelReadCtx
    \/ ChildExitClean

SpecCancel == InitCancel /\ [][NextCancel]_vars

(***************************************************************************)
(* C15.  The claim: a Write called with a cancelled context writes nothing *)
(* to stdin, and once the context given to ReadMessages is cancelled the   *)
(* consumer is given no further message.  Violated: neither Write nor      *)
(* ReadMessages reads its ctx parameter.                                   *)
(***************************************************************************)
C15_RespectsCallerContext ==
    [][/\ \A w \in Writers : wres'[w].snap.cancelled => ~wres'[w].wrote
       /\ readCtxDone => received' = received]_vars

(***************************************************************************)
(* C16.  The claim: a Write on a transport that is not ready for writing   *)
(* returns a cli-connection error and writes nothing, and a successful     *)
(* Write(line) emits exactly the line and one newline, so the child's      *)
(* stdin holds whole lines only.  The second half is violated when two     *)
(* Write calls overlap (see C9): both copy into the shared bufio.Writer.   *)
(***************************************************************************)
RECURSIVE IsLines(_)
IsLines(s) ==
    \/ s = <<>>
    \/ /\ Len(s) >= Len(Line("w1"))
       /\ \E w \in Writers : SubSeq(s, 1, Len(Line(w))) = Line(w)
       /\ IsLines(SubSeq(s, Len(Line("w1")) + 1, Len(s)))

C16_WriteContract ==
    /\ \A w \in Writers :
           (wres[w].msg # "none" /\ ~wres[w].snap.open) =>
               (wres[w].kind = "cli_connection" /\ wres[w].msg = "not_ready"
                /\ ~wres[w].wrote)
    /\ IsLines(childStdin)

(***************************************************************************)
(* C17.  The claim: EndInput returns nil on a transport whose stdin is not *)
(* open, a second EndInput changes nothing, and EndInput leaves the ready  *)
(* bit, the context, the command and the reader alone.  Violated after a   *)
(* Connect that failed once the stdin pipe was made: t.stdin is left set   *)
(* and closed, and closing it again fails.                                 *)
(***************************************************************************)
C17_EndInputFrame ==
    [][EndInput =>
           /\ stdin # "open" => endRes' = "nil"
           /\ lastOp = "endinput" =>
                  UNCHANGED <<stdin, stdinWriter, endRes, wbuf, wbufErr, childStdin>>
           /\ UNCHANGED <<ready, ctxDone, cmd, stdout, stdoutReader, exitError,
                          chvars, rvars, child, pos>>]_vars

(***************************************************************************)
(* Control frames.  The caller writes a control request with id "w1" to    *)
(* the child's stdin, and the child writes system messages, a control      *)
(* response carrying that id (only once it has received the request) and   *)
(* control requests of its own with id "c1".  The first character of an    *)
(* object's content stands for its "type" field: "r" for control_response, *)
(* "q" for control_request; the rest is the request_id.                    *)
(***************************************************************************)
ObjControlResponse == <<LBRACE, QUOTE, "r", "w1", QUOTE, RBRACE>>
ObjControlRequest == <<LBRACE, QUOTE, "q", "c1", QUOTE, RBRACE>>

ControlPlans ==
    {[objs |-> o, k |-> 0, chunks |-> <<>>] :
        o \in SeqsUpTo({ObjSys, ObjControlResponse, ObjControlRequest}, MaxObjs)}

InitControl == InitWith(ControlPlans, {MaxBuf}, {FALSE})

\* the caller's outbound control request has reached the child
RequestSent == \E i \in 1..Len(childStdin) : childStdin[i] = "w1"

\* the child answers a request only after it has received it
ReaderLineReactive ==
    /\ pos < Len(StdoutLines)
    /\ StdoutLines[pos + 1] = ObjControlResponse => RequestSent
    /\ ReaderLine

WriteRequest == WriteEnter("w1")

NextControl ==
    \/ ConnectOK
    \/ WriteRequest
    \/ WriteStringBegin("w1")
    \/ WriteStringEnd("w1")
    \/ WriteFlush("w1")
    \/ ReaderStart
    \/ ReaderLineReactive
    \/ ReaderSend
    \/ ReaderOnError
    \/ ReaderEOF
    \/ ReaderCheckCmd
    \/ ReaderWaitCall
    \/ ReaderWaitReturn
    \/ Consume
    \/ ChildExitClean

SpecControl == InitControl /\ [][NextControl]_vars

\* how many of the lines read so far are the object o
RECURSIVE CountIn(_, _)
CountIn(s, x) ==
    IF s = <<>> THEN 0
    ELSE (IF Head(s) = x THEN 1 ELSE 0) + CountIn(Tail(s), x)

\* how many of the messages handed on by the reader have type t
RECURSIVE CountType(_, _)
CountType(ms, t) ==
    IF ms = <<>> THEN 0
    ELSE (IF Head(ms).type = t THEN 1 ELSE 0) + CountType(Tail(ms), t)

(***************************************************************************)
(* C18.  The claim: an inbound control response carrying the id of an      *)
(* outbound request resolves that request's waiter.  For that, every       *)
(* response frame read from stdout has to be handed on by the reader, and  *)
(* not reported as an error.  Violated: the source has no correlation      *)
(* table, and the reader rejects a control_response frame as an unknown    *)
(* message type.                                                           *)
(***************************************************************************)
C18_ResponseReachesWaiter ==
    /\ CountType(Delivered, "r") = CountIn(LinesRead, ObjControlResponse)
    /\ CountIn(LinesRead, ObjControlRequest) = 0 => OfferedAll = <<>>

(***************************************************************************)
(* C19.  The claim: every control request the child writes is answered by  *)
(* exactly one control response on the child's stdin with the same id, is  *)
(* not discarded by the reader, and the other messages pass unchanged.     *)
(* Violated: the reader rejects a control_request frame as an unknown      *)
(* message type, and nothing writes a response.                            *)
(***************************************************************************)
ControlResponseLine == <<"control_response c1", NL>>

RECURSIVE CountLines(_, _)
CountLines(s, line) ==
    IF Len(s) < Len(line) THEN 0
    ELSE (IF SubSeq(s, 1, Len(line)) = line THEN 1 ELSE 0)
         + CountLines(Tail(s), line)

C19_ControlRequestAnswered ==
    /\ CountType(Delivered, "s") = CountIn(LinesRead, ObjSys)
    /\ rpc = "done" =>
           /\ CountLines(childStdin, ControlResponseLine)
                  = CountIn(LinesRead, ObjControlRequest)
           /\ CountIn(LinesRead, ObjControlResponse) = 0 => OfferedAll = <<>>

(***************************************************************************)
(* MarshalMessage / UnmarshalMessage on values.                            *)
(*                                                                         *)
(* A Go value is a record with the struct's fields and go, the name of its *)
(* type.  A pointer or a map is <<>> when nil and <<x>> otherwise.  A      *)
(* value of type interface{} (the content of a user message or of a tool   *)
(* result) is Iface(k, x): "nil", a "string", a []ContentBlock ("blocks"), *)
(* or what encoding/json decodes an array into, a []interface{} of generic *)
(* values ("generic").  A JSON text is modelled by the JSON value it       *)
(* denotes, J(kind, x): "null", "str", "num", "bool", "arr" with the       *)
(* sequence of its items, "obj" with the members that are present.         *)
(***************************************************************************)
J(kind, x) == [j |-> kind, jv |-> x]
JNull == J("null", <<>>)
JStr(s) == J("str", s)
Iface(k, x) == [k |-> k, x |-> x]

\* json.Marshal of a pointer or map field
JPtr(kind, p) == IF p = <<>> THEN JNull ELSE J(kind, p[1])

\* omitempty: a nil pointer, a nil interface, a nil or empty map is left out
OmitEmpty(f, tagged) ==
    [n \in {n \in DOMAIN f :
              ~(/\ n \in tagged
                /\ \/ f[n].j = "null"
                   \/ f[n].j = "obj" /\ DOMAIN f[n].jv = {})} |-> f[n]]

\* json.Unmarshal of the members of an object into a struct: absent and null
\* leave the zero value, a value of another JSON type is an error
Mismatch(f, types) ==
    \E n \in DOMAIN types \cap DOMAIN f : f[n].j \notin {types[n], "null"}
Field(f, n, kind, zero) ==
    IF n \in DOMAIN f /\ f[n].j = kind THEN f[n].jv ELSE zero
PtrFieldNil(f, n, kind) == <<>>
PtrField(f, n, kind) ==
    IF n \in DOMAIN f /\ f[n].j = kind THEN <<f[n].jv>> ELSE <<>>
\* into a field of type interface{}: any JSON value is accepted
IfaceOfJSON(f, n) ==
    IF n \notin DOMAIN f THEN Iface("nil", <<>>)
    ELSE CASE f[n].j = "null" -> Iface("nil", <<>>)
           [] f[n].j = "str"  -> Iface("string", f[n].jv)
           [] f[n].j = "arr"  -> Iface("generic", f[n].jv)
           [] OTHER           -> Iface("generic", <<f[n]>>)

\* the Type() of a block, of a message, of a control request and response
TypeOf(v) ==
    CASE v.go = "TextBlock"        -> "text"
      [] v.go = "ThinkingBlock"    -> "thinking"
      [] v.go = "ToolUseBlock"     -> "tool_use"
      [] v.go = "ToolResultBlock"  -> "tool_result"
      [] v.go = "UserMessage"      -> "user"
      [] v.go = "AssistantMessage" -> "assistant"
      [] v.go = "SystemMessage"    -> "system"
      [] v.go = "ResultMessage"    -> "result"
      [] v.go = "StreamEvent"      -> "stream_event"
      [] v.go = "InterruptRequestWrapper"         -> "interrupt"
      [] v.go = "PermissionRequestWrapper"        -> "can_use_tool"
      [] v.go = "InitializeRequestWrapper"        -> "initialize"
      [] v.go = "SetPermissionModeRequestWrapper" -> "set_permission_mode"
      [] v.go = "HookCallbackRequestWrapper"      -> "hook_callback"
      [] v.go = "MCPMessageRequestWrapper"        -> "mcp_message"
      [] v.go = "SuccessResponse"  -> "success"
      [] v.go = "ErrorResponse"    -> "error"

\* json.Marshal of a block through its pointer: the fields as they are,
\* Type_ included; the blocks inside a tool result are encoded by this
RECURSIVE JSONOfBlock(_)
JSONOfIface(c) ==
    CASE c.k = "nil"     -> JNull
      [] c.k = "string"  -> JStr(c.x)
      [] c.k = "blocks"  -> J("arr", [i \in 1..Len(c.x) |-> JSONOfBlock(c.x[i])])
      [] c.k = "generic" -> J("arr", c.x)

JSONOfBlock(b) ==
    CASE b.go = "TextBlock" ->
             J("obj", [type |-> JStr(b.Type_), text |-> JStr(b.Text)])
      [] b.go = "ThinkingBlock" ->
             J("obj", [type |-> JStr(b.Type_), thinking |-> JStr(b.Thinking),
                       signature |-> JStr(b.Signature)])
      [] b.go = "ToolUseBlock" ->
             J("obj", [type |-> JStr(b.Type_), id |-> JStr(b.ID),
                       name |-> JStr(b.Name), input |-> JPtr("obj", b.Input)])
      [] b.go = "ToolResultBlock" ->
             J("obj", OmitEmpty([type |-> JStr(b.Type_),
                                 tool_use_id |-> JStr(b.ToolUseID),
                                 content |-> JSONOfIface(b.Content),
                                 is_error |-> JPtr("bool", b.IsError)],
                                {"content", "is_error"}))

\* MarshalContentBlock: set the block's own Type_, then json.Marshal
MarshalContentBlock(b) == JSONOfBlock([b EXCEPT !.Type_ = TypeOf(b)])

DecodeFailed(e) == [err |-> e, v |-> <<>>]
NewMessageParseErrorNoText(message) ==
    [err |-> "message_parse", v |-> <<>>, text |-> "unknown type"]
\* a message-parse error and its text
NewMessageParseError(message) == [err |-> "message_parse", v |-> <<>>, text |-> message]
Decoded(x) == [err |-> "nil", v |-> x]

\* UnmarshalContentBlock: [err, v]
UnmarshalContentBlock(data) ==
    IF data.j # "obj" \/ Mismatch(data.jv, [type |-> "str"])
    THEN DecodeFailed("json_decode")
    ELSE
    LET f == data.jv
        typ == Field(f, "type", "str", "")
    IN  CASE typ = "text" ->
                 IF Mismatch(f, [text |-> "str"]) THEN DecodeFailed("json_decode")
                 ELSE Decoded([go |-> "TextBlock", Type_ |-> typ,
                               Text |-> Field(f, "text", "str", "")])
          [] typ = "thinking" ->
                 IF Mismatch(f, [thinking |-> "str", signature |-> "str"])
                 THEN DecodeFailed("json_decode")
                 ELSE Decoded([go |-> "ThinkingBlock", Type_ |-> typ,
                               Thinking |-> Field(f, "thinking", "str", ""),
                               Signature |-> Field(f, "signature", "str", "")])
          [] typ = "tool_use" ->
                 IF Mismatch(f, [id |-> "str", name |-> "str", input |-> "obj"])
                 THEN DecodeFailed("json_decode")
                 ELSE Decoded([go |-> "ToolUseBlock", Type_ |-> typ,
                               ID |-> Field(f, "id", "str", ""),
                               Name |-> Field(f, "name", "str", ""),
                               Input |-> PtrField(f, "input", "obj")])
          [] typ = "tool_result" ->
                 IF Mismatch(f, [tool_use_id |-> "str", is_error |-> "bool"])
                 THEN DecodeFailed("json_decode")
                 ELSE Decoded([go |-> "ToolResultBlock", Type_ |-> typ,
                               ToolUseID |-> Field(f, "tool_use_id", "str", ""),
                               Content |-> IfaceOfJSON(f, "content"),
                               IsError |-> PtrField(f, "is_error", "bool")])
          [] OTHER -> NewMessageParseError("unknown content block type: " \o typ)

\* marshalContentBlocks: MarshalContentBlock of each block, in order
marshalContentBlocks(blocks) ==
    [i \in 1..Len(blocks) |-> MarshalContentBlock(blocks[i])]

marshalUserMessage(msg) ==
    J("obj", OmitEmpty([type |-> JStr("user"),
                        content |-> IF msg.Content.k = "blocks"
                                    THEN J("arr", marshalContentBlocks(msg.Content.x))
                                    ELSE JSONOfIface(msg.Content),
                        parent_tool_use_id |-> JPtr("str", msg.ParentToolUseID)],
                       {"parent_tool_use_id"}))

marshalAssistantMessage(msg) ==
    J("obj", OmitEmpty([type |-> JStr("assistant"),
                        content |-> J("arr", marshalContentBlocks(msg.Content)),
                        model |-> JStr(msg.Model),
                        parent_tool_use_id |-> JPtr("str", msg.ParentToolUseID)],
                       {"parent_tool_use_id"}))

MarshalMessage(msg) ==
    CASE msg.go = "UserMessage" -> marshalUserMessage(msg)
      [] msg.go = "AssistantMessage" -> marshalAssistantMessage(msg)
      [] msg.go = "SystemMessage" ->
             J("obj", [type |-> JStr("system"), subtype |-> JStr(msg.Subtype),
                       data |-> JPtr("obj", msg.Data)])
      [] msg.go = "ResultMessage" ->
             J("obj", OmitEmpty([type |-> JStr("result"), subtype |-> JStr(msg.Subtype),
                                 duration_ms |-> J("num", msg.DurationMS),
                                 duration_api_ms |-> J("num", msg.DurationAPIMS),
                                 is_error |-> J("bool", msg.IsError),
                                 num_turns |-> J("num", msg.NumTurns),
                                 session_id |-> JStr(msg.SessionID),
                                 total_cost_usd |-> JPtr("num", msg.TotalCostUSD),
                                 usage |-> JPtr("obj", msg.Usage),
                                 result |-> JPtr("str", msg.Result)],
                                {"total_cost_usd", "usage", "result"}))
      [] msg.go = "StreamEvent" ->
             J("obj", OmitEmpty([type |-> JStr("stream_event"), uuid |-> JStr(msg.UUID),
                                 session_id |-> JStr(msg.SessionID),
                                 event |-> JPtr("obj", msg.Event),
                                 parent_tool_use_id |-> JPtr("str", msg.ParentToolUseID)],
                                {"parent_tool_use_id"}))

\* UnmarshalContentBlock of each item, in order: the first error, or the blocks
UnmarshalBlocks(items) ==
    LET rs == [i \in 1..Len(items) |-> UnmarshalContentBlock(items[i])]
        bad == {i \in 1..Len(items) : rs[i].err # "nil"}
    IN  IF bad # {}
        THEN rs[CHOOSE i \in bad : \A k \in bad : i <= k]
        ELSE Decoded([i \in 1..Len(items) |-> rs[i].v])

\* processUserContent: a string stays, an array becomes a []ContentBlock
processUserContent(content) ==
    IF content.k = "generic"
    THEN LET r == UnmarshalBlocks(content.x)
         IN  IF r.err # "nil" THEN r ELSE Decoded(Iface("blocks", r.v))
    ELSE Decoded(content)

unmarshalUserMessage(f) ==
    IF Mismatch(f, [parent_tool_use_id |-> "str"]) THEN DecodeFailed("json_decode")
    ELSE LET r == processUserContent(IfaceOfJSON(f, "content"))
         IN  IF r.err # "nil" THEN r
             ELSE Decoded([go |-> "UserMessage", Type_ |-> Field(f, "type", "str", ""),
                           Content |-> r.v,
                           ParentToolUseID |-> PtrField(f, "parent_tool_use_id", "str")])

unmarshalAssistantMessage(f) ==
    IF Mismatch(f, [content |-> "arr", model |-> "str", parent_tool_use_id |-> "str"])
    THEN DecodeFailed("json_decode")
    ELSE LET r == UnmarshalBlocks(Field(f, "content", "arr", <<>>))
         IN  IF r.err # "nil" THEN r
             ELSE Decoded([go |-> "AssistantMessage",
                           Type_ |-> Field(f, "type", "str", ""),
                           Content |-> r.v, Model |-> Field(f, "model", "str", ""),
                           ParentToolUseID |-> PtrField(f, "parent_tool_use_id", "str")])

\* UnmarshalMessage of types/messages.go, on the JSON value of the text
UnmarshalMessageJSON(data) ==
    IF data.j # "obj" \/ Mismatch(data.jv, [type |-> "str"])
    THEN DecodeFailed("json_decode")
    ELSE
    LET f == data.jv
        typ == Field(f, "type", "str", "")
    IN  CASE typ = "user" -> unmarshalUserMessage(f)
          [] typ = "assistant" -> unmarshalAssistantMessage(f)
          [] typ = "system" ->
                 IF Mismatch(f, [subtype |-> "str", data |-> "obj"])
                 THEN DecodeFailed("json_decode")
                 ELSE Decoded([go |-> "SystemMessage", Type_ |-> typ,
                               Subtype |-> Field(f, "subtype", "str", ""),
                               Data |-> PtrField(f, "data", "obj")])
          [] typ = "result" ->
                 IF Mismatch(f, [subtype |-> "str", duration_ms |-> "num",
                                 duration_api_ms |-> "num", is_error |-> "bool",
                                 num_turns |-> "num", session_id |-> "str",
                                 total_cost_usd |-> "num", usage |-> "obj",
                                 result |-> "str"])
                 THEN DecodeFailed("json_decode")
                 ELSE Decoded([go |-> "ResultMessage", Type_ |-> typ,
                               Subtype |-> Field(f, "subtype", "str", ""),
                               DurationMS |-> Field(f, "duration_ms", "num", 0),
                               DurationAPIMS |-> Field(f, "duration_api_ms", "num", 0),
                               IsError |-> Field(f, "is_error", "bool", FALSE),
                               NumTurns |-> Field(f, "num_turns", "num", 0),
                               SessionID |-> Field(f, "session_id", "str", ""),
                               TotalCostUSD |-> PtrField(f, "total_cost_usd", "num"),
                               Usage |-> PtrField(f, "usage", "obj"),
                               Result |-> PtrField(f, "result", "str")])
          [] typ = "stream_event" ->
                 IF Mismatch(f, [uuid |-> "str", session_id |-> "str", event |-> "obj",
                                 parent_tool_use_id |-> "str"])
                 THEN DecodeFailed("json_decode")
                 ELSE Decoded([go |-> "StreamEvent", Type_ |-> typ,
                               UUID |-> Field(f, "uuid", "str", ""),
                               SessionID |-> Field(f, "session_id", "str", ""),
                               Event |-> PtrField(f, "event", "obj"),
                               ParentToolUseID |-> PtrField(f, "parent_tool_use_id", "str")])
          [] OTHER -> NewMessageParseError("unknown message type: " \o typ)

\* the longest []ContentBlock in a value
MaxBlocks == 1

Maps == {<<>>, <<[a |-> JStr("1")]>>}
StrPtrs == {<<>>, <<"p1">>}

\* the blocks that hold no block; the caller may or may not have set Type_
LeafBlocks ==
    {[go |-> "TextBlock", Type_ |-> t, Text |-> "x"] : t \in {"", "text"}}
    \cup {[go |-> "ThinkingBlock", Type_ |-> "", Thinking |-> "th", Signature |-> "sg"]}
    \cup {[go |-> "ToolUseBlock", Type_ |-> "", ID |-> "t1", Name |-> "Bash",
           Input |-> i] : i \in Maps}
    \cup {[go |-> "ToolResultBlock", Type_ |-> "", ToolUseID |-> "t1", Content |-> c,
           IsError |-> e] :
             c \in {Iface("nil", <<>>), Iface("string", "out")}, e \in {<<>>, <<TRUE>>}}

\* and the tool results whose content is a sequence of blocks
Blocks ==
    LeafBlocks
    \cup {[go |-> "ToolResultBlock", Type_ |-> "", ToolUseID |-> "t1",
           Content |-> Iface("blocks", bs), IsError |-> <<>>] :
             bs \in SeqsUpTo(LeafBlocks, MaxBlocks) \ {<<>>}}

Messages ==
    {[go |-> "UserMessage", Type_ |-> "", Content |-> c, ParentToolUseID |-> p] :
        c \in {Iface("nil", <<>>), Iface("string", "hi")}
              \cup {Iface("blocks", bs) : bs \in SeqsUpTo(Blocks, MaxBlocks)},
        p \in StrPtrs}
    \cup {[go |-> "AssistantMessage", Type_ |-> "", Content |-> bs, Model |-> "glm",
           ParentToolUseID |-> p] : bs \in SeqsUpTo(Blocks, MaxBlocks), p \in StrPtrs}
    \cup {[go |-> "SystemMessage", Type_ |-> "", Subtype |-> "init", Data |-> d] :
            d \in Maps}
    \cup {[go |-> "ResultMessage", Type_ |-> "", Subtype |-> "success",
           DurationMS |-> 2, DurationAPIMS |-> 1, IsError |-> e, NumTurns |-> 1,
           SessionID |-> "s1", TotalCostUSD |-> c, Usage |-> u, Result |-> r] :
            e \in BOOLEAN, c \in {<<>>, <<3>>}, u \in Maps, r \in StrPtrs}
    \cup {[go |-> "StreamEvent", Type_ |-> "", UUID |-> "u1", SessionID |-> "s1",
           Event |-> e, ParentToolUseID |-> p] : e \in Maps \ {<<>>}, p \in StrPtrs}

\* a caller holds a value, encodes it, and decodes the text it got
InitCodec ==
    /\ InitTransport({<<ObjSys>>}, {MaxBuf}, {FALSE})
    /\ codec \in {[pc |-> "in", what |-> "message", v |-> m] : m \in Messages}
                 \cup {[pc |-> "in", what |-> "block", v |-> b] : b \in Blocks}

CodecOnly ==
    UNCHANGED <<tvars, chvars, lvars, cvars, bvars, rvars, gvars, wvars, avars,
                received, readCtxDone, offered, panicked, hist>>

MarshalMessageStep ==
    /\ codec.pc = "in" /\ codec.what = "message"
    /\ codec' = [pc |-> "encoded", what |-> codec.what, v |-> codec.v,
                 data |-> MarshalMessage(codec.v)]
    /\ CodecOnly

MarshalContentBlockStep ==
    /\ codec.pc = "in" /\ codec.what = "block"
    /\ codec' = [pc |-> "encoded", what |-> codec.what, v |-> codec.v,
                 data |-> MarshalContentBlock(codec.v)]
    /\ CodecOnly

UnmarshalMessageStep ==
    /\ codec.pc = "encoded" /\ codec.what = "message"
    /\ codec' = [pc |-> "decoded", what |-> codec.what, v |-> codec.v,
                 data |-> codec.data, out |-> UnmarshalMessageJSON(codec.data)]
    /\ CodecOnly

UnmarshalContentBlockStep ==
    /\ codec.pc = "encoded" /\ codec.what = "block"
    /\ codec' = [pc |-> "decoded", what |-> codec.what, v |-> codec.v,
                 data |-> codec.data, out |-> UnmarshalContentBlock(codec.data)]
    /\ CodecOnly

NextCodec ==
    \/ MarshalMessageStep
    \/ MarshalContentBlockStep
    \/ UnmarshalMessageStep
    \/ UnmarshalContentBlockStep

SpecCodec == InitCodec /\ [][NextCodec]_vars

\* V on its defined fields: every block and message in it carries the type
\* of its variant
RECURSIVE Typed(_)
TypedContent(c) ==
    IF c.k = "blocks" THEN Iface("blocks", [i \in 1..Len(c.x) |-> Typed(c.x[i])])
    ELSE c
Typed(v) ==
    CASE v.go \in {"UserMessage", "ToolResultBlock"} ->
             [v EXCEPT !.Type_ = TypeOf(v), !.Content = TypedContent(v.Content)]
      [] v.go = "AssistantMessage" ->
             [v EXCEPT !.Type_ = TypeOf(v),
                       !.Content = [i \in 1..Len(v.Content) |-> Typed(v.Content[i])]]
      [] OTHER -> [v EXCEPT !.Type_ = TypeOf(v)]

\* C20: decoding the encoding of a message or of a block succeeds and gives
\* the value back, with the same variant, the same fields and the same kind
\* of content (the type field set to the variant's)
C20_RoundTrip ==
    codec.pc = "decoded" => (codec.out.err = "nil" /\ codec.out.v = Typed(codec.v))

(***************************************************************************)
(* UnmarshalControlRequest / MarshalControlResponse on values.             *)
(*                                                                         *)
(* SDKControlRequest.Request is an interface{}: it holds the JSON value of *)
(* the request member as encoding/json decoded it (JNull when the member   *)
(* is absent or null), and extractSubtype encodes it again unchanged.      *)
(***************************************************************************)
\* extractSubtype: [err, subtype]
extractSubtype(request) ==
    CASE request.j = "null" -> [err |-> "nil", subtype |-> ""]
      [] request.j = "obj" /\ ~Mismatch(request.jv, [subtype |-> "str"]) ->
             [err |-> "nil", subtype |-> Field(request.jv, "subtype", "str", "")]
      [] OTHER -> [err |-> "json_decode", subtype |-> ""]

\* the fields of the request struct of a subtype, or <<>> when a member has
\* another JSON type than its field
RequestStruct(subtype, f) ==
    LET sub == Field(f, "subtype", "str", "")
    IN  CASE subtype = "interrupt" -> <<[Subtype |-> sub]>>
          [] subtype = "can_use_tool" ->
                 IF Mismatch(f, [tool_name |-> "str", input |-> "obj",
                                 permission_suggestions |-> "arr",
                                 blocked_path |-> "str"])
                 THEN <<>>
                 ELSE <<[Subtype |-> sub, ToolName |-> Field(f, "tool_name", "str", ""),
                         Input |-> PtrField(f, "input", "obj"),
                         PermissionSuggestions |->
                             PtrField(f, "permission_suggestions", "arr"),
                         BlockedPath |-> PtrField(f, "blocked_path", "str")]>>
          [] subtype = "initialize" ->
                 IF Mismatch(f, [hooks |-> "obj"]) THEN <<>>
                 ELSE <<[Subtype |-> sub, Hooks |-> PtrField(f, "hooks", "obj")]>>
          [] subtype = "set_permission_mode" ->
                 IF Mismatch(f, [mode |-> "str"]) THEN <<>>
                 ELSE <<[Subtype |-> sub, Mode |-> Field(f, "mode", "str", "")]>>
          [] subtype = "hook_callback" ->
                 IF Mismatch(f, [callback_id |-> "str", tool_use_id |-> "str"])
                 THEN <<>>
                 ELSE <<[Subtype |-> sub,
                         CallbackID |-> Field(f, "callback_id", "str", ""),
                         Input |-> IfaceOfJSON(f, "input"),
                         ToolUseID |-> PtrField(f, "tool_use_id", "str")]>>
          [] subtype = "mcp_message" ->
                 IF Mismatch(f, [server_name |-> "str"]) THEN <<>>
                 ELSE <<[Subtype |-> sub,
                         ServerName |-> Field(f, "server_name", "str", ""),
                         Message |-> IfaceOfJSON(f, "message")]>>

\* UnmarshalControlRequest: [err, v], v a wrapper of the envelope and the request
UnmarshalControlRequest(data) ==
    IF data.j # "obj" \/ Mismatch(data.jv, [type |-> "str", request_id |-> "str"])
    THEN DecodeFailed("json_decode")
    ELSE
    LET wrapper == [Type_ |-> Field(data.jv, "type", "str", ""),
                    ID |-> Field(data.jv, "request_id", "str", ""),
                    Request |-> IF "request" \in DOMAIN data.jv THEN data.jv.request
                                ELSE JNull]
        sub == extractSubtype(wrapper.Request)
        req == RequestStruct(sub.subtype, wrapper.Request.jv)
        variant == CASE sub.subtype = "interrupt"    -> "InterruptRequestWrapper"
                     [] sub.subtype = "can_use_tool" -> "PermissionRequestWrapper"
                     [] sub.subtype = "initialize"   -> "InitializeRequestWrapper"
                     [] sub.subtype = "set_permission_mode" ->
                            "SetPermissionModeRequestWrapper"
                     [] sub.subtype = "hook_callback" -> "HookCallbackRequestWrapper"
                     [] sub.subtype = "mcp_message"   -> "MCPMessageRequestWrapper"
                     [] OTHER -> ""
    IN  CASE sub.err # "nil" -> DecodeFailed(sub.err)
          [] sub.err = "nil" /\ variant = "" ->
                 NewMessageParseError("unknown control request subtype: " \o sub.subtype)
          [] OTHER ->
                 IF req = <<>> THEN DecodeFailed("json_decode")
                 ELSE Decoded([go |-> variant, wrapper |-> wrapper, request |-> req[1]])

\* MarshalControlResponse: the response inside an SDKControlResponse
MarshalControlResponse(resp) ==
    J("obj", [type |-> JStr("control_response"),
              response |->
                  IF resp.go = "SuccessResponse"
                  THEN J("obj", OmitEmpty([subtype |-> JStr(resp.Subtype),
                                           request_id |-> JStr(resp.ID),
                                           response |-> JPtr("obj", resp.Response)],
                                          {"response"}))
                  ELSE J("obj", [subtype |-> JStr(resp.Subtype),
                                 request_id |-> JStr(resp.ID),
                                 error |-> JStr(resp.Error)])])

\* the objects made from obj by giving member n one of the values, or by
\* leaving it out
Variants(obj, n, values) ==
    {J("obj", [k \in DOMAIN obj.jv \cup {n} |-> IF k = n THEN v ELSE obj.jv[k]]) :
        v \in values}
    \cup {J("obj", [k \in DOMAIN obj.jv \ {n} |-> obj.jv[k]])}

\* the values tried for a discriminator
Discriminators ==
    {JStr(t) : t \in {"", "bogus", "text", "tool_result", "user", "result",
                      "control_request", "interrupt", "mcp_message"}}
    \cup {J("num", 5), JNull}

BlockTexts == UNION {Variants(MarshalContentBlock(b), "type", Discriminators) :
                        b \in LeafBlocks}

\* encoded messages with every discriminator, and messages that hold one block
\* with every discriminator
MessageTexts ==
    UNION {Variants(MarshalMessage(m), "type", Discriminators) :
              m \in {m \in Messages : m.go \notin {"UserMessage", "AssistantMessage"}
                                      \/ m.Content = Iface("string", "hi")}}
    \cup {J("obj", [type |-> JStr(t), content |-> J("arr", <<b>>), model |-> JStr("glm"),
                    parent_tool_use_id |-> p]) :
            t \in {"user", "assistant", "bogus"}, b \in BlockTexts,
            p \in {JStr("p1"), J("num", 7)}}

\* nested requests of the six subtypes, each with the request struct it denotes
ControlRequests ==
    {[json |-> J("obj", [subtype |-> JStr("interrupt")]),
      want |-> [Subtype |-> "interrupt"]],
     [json |-> J("obj", [subtype |-> JStr("can_use_tool"), tool_name |-> JStr("Bash"),
                         input |-> J("obj", [a |-> JStr("1")]),
                         permission_suggestions |-> J("arr", <<JStr("s")>>),
                         blocked_path |-> JStr("/p")]),
      want |-> [Subtype |-> "can_use_tool", ToolName |-> "Bash",
                Input |-> <<[a |-> JStr("1")]>>,
                PermissionSuggestions |-> << <<JStr("s")>> >>,
                BlockedPath |-> <<"/p">>]],
     [json |-> J("obj", [subtype |-> JStr("can_use_tool"), tool_name |-> JStr("Read"),
                         input |-> J("obj", [a |-> JStr("1")])]),
      want |-> [Subtype |-> "can_use_tool", ToolName |-> "Read",
                Input |-> <<[a |-> JStr("1")]>>,
                PermissionSuggestions |-> <<>>, BlockedPath |-> <<>>]],
     [json |-> J("obj", [subtype |-> JStr("initialize"),
                         hooks |-> J("obj", [Stop |-> J("arr", <<>>)])]),
      want |-> [Subtype |-> "initialize", Hooks |-> <<[Stop |-> J("arr", <<>>)]>>]],
     [json |-> J("obj", [subtype |-> JStr("initialize")]),
      want |-> [Subtype |-> "initialize", Hooks |-> <<>>]],
     [json |-> J("obj", [subtype |-> JStr("set_permission_mode"), mode |-> JStr("plan")]),
      want |-> [Subtype |-> "set_permission_mode", Mode |-> "plan"]],
     [json |-> J("obj", [subtype |-> JStr("hook_callback"), callback_id |-> JStr("c1"),
                         input |-> JStr("in"), tool_use_id |-> JStr("t1")]),
      want |-> [Subtype |-> "hook_callback", CallbackID |-> "c1",
                Input |-> Iface("string", "in"), ToolUseID |-> <<"t1">>]],
     [json |-> J("obj", [subtype |-> JStr("hook_callback"), callback_id |-> JStr("c2"),
                         input |-> JNull]),
      want |-> [Subtype |-> "hook_callback", CallbackID |-> "c2",
                Input |-> Iface("nil", <<>>), ToolUseID |-> <<>>]],
     [json |-> J("obj", [subtype |-> JStr("mcp_message"), server_name |-> JStr("srv"),
                         message |-> J("obj", [id |-> JStr("1")])]),
      want |-> [Subtype |-> "mcp_message", ServerName |-> "srv",
                Message |-> Iface("generic", <<J("obj", [id |-> JStr("1")])>>)]]}

\* the control-request envelopes of these requests, and the objects that differ
\* from an envelope in the type, the request_id, the request or its subtype
RequestTexts ==
    LET Envelope(id, request) ==
            J("obj", [type |-> JStr("control_request"), request_id |-> id,
                      request |-> request])
        proper == {[v |-> <<c.want>>, data |-> Envelope(JStr(id), c.json)] :
                     c \in ControlRequests, id \in {"r1", "r2"}}
        other == UNION {Variants(e.data, "type", Discriminators)
                        \cup Variants(e.data, "request_id", {J("num", 7)})
                        \cup Variants(e.data, "request", {JNull, JStr("interrupt")})
                        \cup {Envelope(id, r) :
                                id \in {JStr("r1"), J("num", 7)},
                                r \in Variants(e.data.jv.request, "subtype",
                                               Discriminators)} : e \in proper}
    IN  proper \cup {[v |-> <<>>, data |-> d] : d \in other \ {e.data : e \in proper}}

Responses ==
    {[go |-> "SuccessResponse", Subtype |-> s, ID |-> id, Response |-> r] :
        s \in {"success", ""}, id \in {"r1", "r2"}, r \in Maps}
    \cup {[go |-> "ErrorResponse", Subtype |-> s, ID |-> id, Error |-> e] :
            s \in {"error", ""}, id \in {"r1", "r2"}, e \in {"denied", ""}}

\* a caller decodes a text it received, or encodes a control response
InitWire ==
    /\ InitTransport({<<ObjSys>>}, {MaxBuf}, {FALSE})
    /\ codec \in {[pc |-> "encoded", what |-> "message", v |-> <<>>, data |-> d] :
                     d \in MessageTexts}
                 \cup {[pc |-> "encoded", what |-> "block", v |-> <<>>, data |-> d] :
                         d \in BlockTexts}
                 \cup {[pc |-> "encoded", what |-> "request", v |-> e.v,
                        data |-> e.data] : e \in RequestTexts}
                 \cup {[pc |-> "in", what |-> "response", v |-> r] : r \in Responses}

UnmarshalControlRequestStep ==
    /\ codec.pc = "encoded" /\ codec.what = "request"
    /\ codec' = [pc |-> "decoded", what |-> codec.what, v |-> codec.v,
                 data |-> codec.data, out |-> UnmarshalControlRequest(codec.data)]
    /\ CodecOnly

MarshalControlResponseStep ==
    /\ codec.pc = "in" /\ codec.what = "response"
    /\ codec' = [pc |-> "encoded", what |-> codec.what, v |-> codec.v,
                 data |-> MarshalControlResponse(codec.v)]
    /\ CodecOnly

NextWire ==
    \/ UnmarshalMessageStep
    \/ UnmarshalContentBlockStep
    \/ UnmarshalControlRequestStep
    \/ MarshalControlResponseStep

SpecWire == InitWire /\ [][NextWire]_vars

Contains(s, sub) ==
    \E i \in 0..(Len(s) - Len(sub)) : SubSeq(s, i + 1, i + Len(sub)) = sub

\* the string discriminator of the decoded text that is outside the closed
\* set, as <<d, enclosed>>: the type of a block or of a message, or, enclosed
\* in a message or an envelope, the type of the block in the content of a user
\* or assistant message and the subtype of the request
Offender ==
    LET f == codec.data.jv
        IsStr(g, n) == n \in DOMAIN g /\ g[n].j = "str"
        blockTypes == {"text", "thinking", "tool_use", "tool_result"}
        messageTypes == {"user", "assistant", "system", "result", "stream_event"}
        subtypes == {"interrupt", "can_use_tool", "initialize", "set_permission_mode",
                     "hook_callback", "mcp_message"}
    IN  CASE codec.what = "block" /\ IsStr(f, "type") /\ f.type.jv \notin blockTypes ->
                 <<f.type.jv, FALSE>>
          [] codec.what = "message" /\ IsStr(f, "type")
             /\ f.type.jv \notin messageTypes ->
                 <<f.type.jv, FALSE>>
          [] codec.what = "message" /\ IsStr(f, "type")
             /\ f.type.jv \in {"user", "assistant"}
             /\ "content" \in DOMAIN f /\ f.content.j = "arr" /\ f.content.jv # <<>>
             /\ IsStr(f.content.jv[1].jv, "type")
             /\ f.content.jv[1].jv.type.jv \notin blockTypes ->
                 <<f.content.jv[1].jv.type.jv, TRUE>>
          [] codec.what = "request" /\ "request" \in DOMAIN f /\ f.request.j = "obj"
             /\ IsStr(f.request.jv, "subtype")
             /\ f.request.jv.subtype.jv \notin subtypes ->
                 <<f.request.jv.subtype.jv, TRUE>>
          [] OTHER -> <<>>

ParseErrorNames(d) ==
    /\ codec.out.err = "message_parse"
    /\ codec.out.v = <<>>
    /\ Contains(codec.out.text, d)

C22_TypeAbsentOrNotString ==
    (/\ codec.pc = "decoded" /\ codec.what = "message"
     /\ \/ "type" \notin DOMAIN codec.data.jv
        \/ codec.data.jv.type.j # "str")
    => (codec.out.err = "json_decode" /\ codec.out.v = <<>>)

\* C23: UnmarshalControlRequest refuses an object whose type is not
\* control_request or that has no request_id
C23_OnlyEnvelopes ==
    (/\ codec.pc = "decoded" /\ codec.what = "request"
     /\ \/ Field(codec.data.jv, "type", "str", "") # "control_request"
        \/ "request_id" \notin DOMAIN codec.data.jv)
    => codec.out.err # "nil"

\* C24: an encoded control response has type control_response, the
\* request_id of the response, the subtype of its variant, no error member in
\* a success and no response member in an error
C24_ResponseEnvelope ==
    (codec.pc = "encoded" /\ codec.what = "response") =>
        LET f == codec.data.jv
            r == f.response.jv
        IN  /\ f.type = JStr("control_response")
            /\ r.request_id = JStr(codec.v.ID)
            /\ r.subtype = JStr(TypeOf(codec.v))
            /\ codec.v.go = "SuccessResponse" => "error" \notin DOMAIN r
            /\ codec.v.go = "ErrorResponse" => "response" \notin DOMAIN r

\* C25: an envelope of a request of one of the six subtypes decodes to the
\* variant of the subtype, with the envelope's request_id and the fields of
\* the nested request
C25_RequestVariants ==
    (codec.pc = "decoded" /\ codec.what = "request" /\ codec.v # <<>>) =>
        /\ codec.out.err = "nil"
        /\ TypeOf(codec.out.v) = codec.data.jv.request.jv.subtype.jv
        /\ codec.out.v.wrapper.ID = codec.data.jv.request_id.jv
        /\ codec.out.v.request = codec.v[1]

C25_Witness ==
    /\ codec.pc = "decoded" /\ codec.what = "request" /\ codec.v # <<>>
    /\ codec.out.err = "nil"
    /\ codec.out.v.go = "PermissionRequestWrapper"
    /\ codec.out.v.wrapper.ID = "r2"
    /\ codec.out.v.request.BlockedPath = <<"/p">>

(***************************************************************************)
(* ClaudeAgentOptions: Validate and buildCommand.                          *)
(*                                                                         *)
(* A pointer option is <<>> when nil and <<x>> otherwise; the maps         *)
(* MCPServers and Agents are <<>> when empty and otherwise <<text>>, the   *)
(* text json.Marshal gives for them (it sorts the keys); ExtraArgs is the  *)
(* function from its keys to their *string values.                         *)
(***************************************************************************)
\* the most options a caller sets
MaxSetOptions == 2

NewClaudeAgentOptions ==
    [AllowedTools |-> <<>>, DisallowedTools |-> <<>>, SystemPrompt |-> Iface("nil", <<>>),
     PermissionMode |-> <<>>, ContinueConversation |-> FALSE, Resume |-> <<>>,
     MaxTurns |-> <<>>, Model |-> <<>>, PermissionPromptToolName |-> <<>>,
     CWD |-> <<>>, CLIPath |-> <<>>, Settings |-> <<>>, AddDirs |-> <<>>,
     Env |-> {}, ExtraArgs |-> <<>>, MCPServers |-> <<>>, IncludePartialMessages |-> FALSE,
     ForkSession |-> FALSE, Agents |-> <<>>, SettingSources |-> <<>>, User |-> <<>>]

\* os.Stat of the paths a caller may give: the errno, "" for none
Stat(path) ==
    CASE path = "/work"            -> ""
      [] path = "/usr/local/bin/claude" -> ""
      [] path = "/missing"         -> "ENOENT"
      [] path = "claude"           -> "ENOENT"
      [] path = "/etc/passwd/sub"  -> "ENOTDIR"

\* the values a caller sets an option to
OptionValues ==
    [AllowedTools |-> {<<"Read", "Write">>},
     DisallowedTools |-> {<<"Bash">>},
     SystemPrompt |-> {Iface("string", "be brief"),
                       Iface("map", [type |-> "preset", append |-> "more"]),
                       Iface("SystemPromptPreset",
                             [Type |-> "preset", Preset |-> "claude_code",
                              Append |-> "more"])},
     PermissionMode |-> {<<"plan">>, <<"bypassPermissions">>, <<"yolo">>},
     ContinueConversation |-> {TRUE},
     Resume |-> {<<"s1">>},
     MaxTurns |-> {<<5>>},
     Model |-> {<<"glm">>},
     PermissionPromptToolName |-> {<<"mcp_tool">>},
     CWD |-> {<<"/work">>, <<"/missing">>, <<"/etc/passwd/sub">>},
     CLIPath |-> {<<"/work">>, <<"/missing">>, <<"/etc/passwd/sub">>},
     Settings |-> {<<"/s.json">>},
     AddDirs |-> {<<"/a">>, <<"/a", "/b">>},
     Env |-> {{"K=V"}},
     ExtraArgs |-> {("debug" :> <<>>), ("debug" :> <<>>) @@ ("k" :> <<"v">>)},
     MCPServers |-> {<<"{\"srv\":{}}">>},
     IncludePartialMessages |-> {TRUE},
     ForkSession |-> {TRUE},
     Agents |-> {<<"{\"a\":{}}">>},
     SettingSources |-> {<<"user", "project">>},
     User |-> {<<"u1">>}]

\* Validate: the error, "nil" for none
Validate(o) ==
    CASE o.Resume # <<>> /\ o.ContinueConversation -> "resume and continue_conversation"
      [] OTHER ->
    CASE o.CWD # <<>> /\ Stat(o.CWD[1]) = "ENOENT" -> "working directory does not exist"
      [] OTHER ->
    CASE o.CLIPath # <<>> /\ Stat(o.CLIPath[1]) = "ENOENT" -> "CLI path does not exist"
      [] OTHER ->
    CASE /\ o.PermissionMode # <<>>
         /\ o.PermissionMode[1] \notin {"default", "acceptEdits", "plan",
                                        "bypassPermissions"} ->
             "invalid permission mode"
      [] OTHER -> "nil"

\* strings.Join
RECURSIVE Join(_, _)
Join(s, sep) ==
    IF s = <<>> THEN ""
    ELSE IF Len(s) = 1 THEN s[1] ELSE s[1] \o sep \o Join(Tail(s), sep)

\* findCLI: the binary found on PATH or in a common location, or "claude"
findCLI == {"/usr/local/bin/claude", "claude"}

\* NewSubprocessCLITransport: what the transport copies from the options; it
\* keeps the options themselves by reference
NewSubprocessCLITransport(options, found) ==
    [cliPath |-> IF options.CLIPath # <<>> THEN options.CLIPath[1] ELSE found,
     cwd |-> IF options.CWD # <<>> THEN options.CWD[1] ELSE "/getwd"]

\* buildCommand on the transport's cliPath and the options it refers to, with
\* the order in which the range over ExtraArgs gives the keys
buildCommand(cliPath, o, keys) ==
    LET Flag(name, p) == IF p = <<>> THEN <<>> ELSE <<name, p[1]>>
        Bare(name, b) == IF b THEN <<name>> ELSE <<>>
        Joined(name, s) == IF Len(s) > 0 THEN <<name, Join(s, ",")>> ELSE <<>>
        prompt == o.SystemPrompt
    IN  <<cliPath, "--output-format", "stream-json", "--verbose">>
        \o (CASE prompt.k = "string" -> <<"--system-prompt", prompt.x>>
              [] prompt.k = "map" /\ "type" \in DOMAIN prompt.x
                 /\ prompt.x.type = "preset" /\ "append" \in DOMAIN prompt.x ->
                     <<"--append-system-prompt", prompt.x.append>>
              [] OTHER -> <<>>)
        \o Joined("--allowedTools", o.AllowedTools)
        \o Joined("--disallowedTools", o.DisallowedTools)
        \o (IF o.MaxTurns # <<>> THEN <<"--max-turns", ToString(o.MaxTurns[1])>> ELSE <<>>)
        \o Flag("--model", o.Model)
        \o Flag("--permission-prompt-tool", o.PermissionPromptToolName)
        \o Flag("--permission-mode", o.PermissionMode)
        \o Bare("--continue", o.ContinueConversation)
        \o Flag("--resume", o.Resume)
        \o Flag("--settings", o.Settings)
        \o Flatten([i \in 1..Len(o.AddDirs) |-> <<"--add-dir", o.AddDirs[i]>>])
        \o (IF o.MCPServers # <<>>
            THEN <<"--mcp-config", "{\"mcpServers\":" \o o.MCPServers[1] \o "}">>
            ELSE <<>>)
        \o Bare("--include-partial-messages", o.IncludePartialMessages)
        \o Bare("--fork-session", o.ForkSession)
        \o Flag("--agents", o.Agents)
        \o Joined("--setting-sources", o.SettingSources)
        \o Flatten([i \in 1..Len(keys) |->
                       <<"--" \o keys[i]>> \o o.ExtraArgs[keys[i]]])
        \o Flag("--user", o.User)
        \o <<"--input-format", "stream-json">>

\* the orders in which a range over a map with the keys S gives them
RangeOrders(S) ==
    {s \in [1..Cardinality(S) -> S] : \A i, j \in DOMAIN s : i # j => s[i] # s[j]}

InitOptions ==
    /\ InitTransport({<<ObjSys>>}, {MaxBuf}, {FALSE})
    /\ \E found \in findCLI :
         codec = [pc |-> "options", what |-> "options", v |-> NewClaudeAgentOptions,
                  set |-> {}, out |-> "", argv |-> <<>>, found |-> found,
                  t |-> <<>>, made |-> <<>>, env |-> {}]

\* a With... builder
WithOption ==
    /\ codec.pc \in {"options", "constructed"}
    /\ Cardinality(codec.set) < MaxSetOptions
    /\ \E n \in DOMAIN OptionValues \ codec.set :
         \E x \in OptionValues[n] :
            codec' = [codec EXCEPT !.v = [@ EXCEPT ![n] = x], !.set = @ \cup {n}]
    /\ CodecOnly

ValidateStep ==
    /\ codec.pc = "options"
    /\ codec' = [codec EXCEPT !.pc = "validated", !.out = Validate(codec.v)]
    /\ CodecOnly

\* buildCommand on a transport made from the options, called a first and a
\* second time
buildCommandStep ==
    /\ codec.pc \in {"options", "built"}
    /\ \E keys \in RangeOrders(DOMAIN codec.v.ExtraArgs) :
         codec' = [codec EXCEPT
                      !.pc = IF codec.pc = "options" THEN "built" ELSE "rebuilt",
                      !.argv = Append(@, buildCommand(
                                  NewSubprocessCLITransport(codec.v, codec.found).cliPath,
                                  codec.v, keys))]
    /\ CodecOnly

\* the transport is made from the options
NewTransportStep ==
    /\ codec.pc = "options"
    /\ codec' = [codec EXCEPT !.pc = "constructed",
                    !.t = <<NewSubprocessCLITransport(codec.v, codec.found)>>,
                    !.made = <<codec.v>>]
    /\ CodecOnly

\* Connect lines 354-374: the environment of the child, without os.Environ()
\* and the two variables of the SDK
processEnv(t, o) == o.Env \cup {"PWD=" \o t.cwd}

\* Connect on a binary that exists: lines 333-374 and the cmd.Start() of 408
ConnectSpawnStep ==
    /\ codec.pc = "constructed"
    /\ Stat(codec.t[1].cliPath) = ""
    /\ \E keys \in RangeOrders(DOMAIN codec.v.ExtraArgs) :
         codec' = [codec EXCEPT
                      !.pc = "spawned",
                      !.argv = <<buildCommand(codec.t[1].cliPath, codec.v, keys)>>,
                      !.env = processEnv(codec.t[1], codec.v)]
    /\ CodecOnly

NextOptions ==
    \/ WithOption
    \/ ValidateStep
    \/ buildCommandStep
    \/ NewTransportStep
    \/ ConnectSpawnStep

SpecOptions == InitOptions /\ [][NextOptions]_vars

Exists(path) == path = "/work"

\* C26: Validate returns an error whenever resume and continue_conversation
\* are both set, whenever cwd or cli_path is set to a path that does not
\* exist, and whenever permission_mode is outside the four values; for all
\* other options it returns nil.
C26_ValidateRules ==
    codec.pc = "validated" =>
        LET o == codec.v IN
        (codec.out # "nil") <=>
            \/ o.Resume # <<>> /\ o.ContinueConversation
            \/ o.CWD # <<>> /\ ~Exists(o.CWD[1])
            \/ o.CLIPath # <<>> /\ ~Exists(o.CLIPath[1])
            \/ /\ o.PermissionMode # <<>>
               /\ o.PermissionMode[1] \notin {"default", "acceptEdits", "plan",
                                              "bypassPermissions"}

\* C27: two assemblies from equal options yield the identical argument
\* sequence, also with two or more extra_args entries.
C27_Deterministic ==
    codec.pc = "rebuilt" => codec.argv[1] = codec.argv[2]

\* the place of a flag in the order of the options table, 0 for a word that
\* is no option flag
TableRank(word) ==
    CASE word = "--allowedTools"                                -> 1
      [] word = "--disallowedTools"                             -> 2
      [] word \in {"--system-prompt", "--append-system-prompt"} -> 3
      [] word = "--permission-mode"                             -> 4
      [] word = "--continue"                                    -> 5
      [] word = "--resume"                                      -> 6
      [] word = "--max-turns"                                   -> 7
      [] word = "--model"                                       -> 8
      [] word = "--permission-prompt-tool"                      -> 9
      [] word = "--settings"                                    -> 10
      [] word = "--add-dir"                                     -> 11
      [] word \in {"--debug", "--k"}                            -> 12
      [] word = "--agents"                                      -> 13
      [] word = "--mcp-config"                                  -> 14
      [] word = "--setting-sources"                             -> 15
      [] word = "--include-partial-messages"                    -> 16
      [] word = "--fork-session"                                -> 17
      [] word = "--user"                                        -> 18
      [] OTHER                                                  -> 0

\* C28: the option flags appear in argv in the order of the options table,
\* for every combination of set options.
C28_TableOrder ==
    codec.pc = "built" =>
        LET argv == codec.argv[1] IN
        \A i, j \in DOMAIN argv :
            i < j /\ TableRank(argv[i]) > 0 /\ TableRank(argv[j]) > 0
                => TableRank(argv[i]) <= TableRank(argv[j])

HasWords(argv, words) ==
    \E i \in 0..(Len(argv) - Len(words)) : SubSeq(argv, i + 1, i + Len(words)) = words

\* the words the options table gives each set option, as a set of word
\* sequences, and the flags of the unset options
WordsOf(o) ==
    LET Ptr(name, p) == IF p = <<>> THEN {} ELSE {<<name, p[1]>>}
        List(name, s) == IF s = <<>> THEN {} ELSE {<<name, Join(s, ",")>>}
        Bool(name, b) == IF b THEN {<<name>>} ELSE {}
    IN  List("--allowedTools", o.AllowedTools)
        \cup List("--disallowedTools", o.DisallowedTools)
        \cup (CASE o.SystemPrompt.k = "string" -> {<<"--system-prompt", o.SystemPrompt.x>>}
                [] o.SystemPrompt.k = "map" ->
                     {<<"--append-system-prompt", o.SystemPrompt.x.append>>}
                [] o.SystemPrompt.k = "SystemPromptPreset" ->
                     {<<"--append-system-prompt", o.SystemPrompt.x.Append>>}
                [] OTHER -> {})
        \cup Ptr("--permission-mode", o.PermissionMode)
        \cup Bool("--continue", o.ContinueConversation)
        \cup Ptr("--resume", o.Resume)
        \cup (IF o.MaxTurns = <<>> THEN {} ELSE {<<"--max-turns", ToString(o.MaxTurns[1])>>})
        \cup Ptr("--model", o.Model)
        \cup Ptr("--permission-prompt-tool", o.PermissionPromptToolName)
        \cup Ptr("--settings", o.Settings)
        \cup {<<"--add-dir", o.AddDirs[i]>> : i \in DOMAIN o.AddDirs}
        \cup {<<"--" \o key>> \o o.ExtraArgs[key] : key \in DOMAIN o.ExtraArgs}
        \cup Bool("--agents", o.Agents # <<>>)
        \cup Bool("--mcp-config", o.MCPServers # <<>>)
        \cup List("--setting-sources", o.SettingSources)
        \cup Bool("--include-partial-messages", o.IncludePartialMessages)
        \cup Bool("--fork-session", o.ForkSession)
        \cup Ptr("--user", o.User)

\* C29: argv starts with cli_path, --output-format, stream-json, --verbose,
\* ends with --input-format, stream-json, contains for each set option its
\* flag immediately followed by its value, and contains no flag for an
\* unset option.
C29_Assembly ==
    codec.pc = "built" =>
        LET argv == codec.argv[1]
            o == codec.v
        IN  /\ SubSeq(argv, 2, 4) = <<"--output-format", "stream-json", "--verbose">>
            /\ o.CLIPath # <<>> => argv[1] = o.CLIPath[1]
            /\ SubSeq(argv, Len(argv) - 1, Len(argv)) = <<"--input-format", "stream-json">>
            /\ \A words \in WordsOf(o) : HasWords(argv, words)
            /\ \A i \in DOMAIN argv :
                  TableRank(argv[i]) > 0 => \E words \in WordsOf(o) : words[1] = argv[i]

(***************************************************************************)
(* The lock discipline of t.mu.  A fiber that holds the lock in either     *)
(* mode runs only while no other fiber holds it exclusively, and one that  *)
(* holds it exclusively runs only while no other fiber holds it at all.    *)
(***************************************************************************)
\* the reader loop, after its scan loop, reads t.cmd
ReaderReadsCmd == rpc \in {"postloop", "waitcall"} /\ rpc' # rpc
\* the reader loop assigns t.exitError
ReaderWritesExitError == rpc = "wait" /\ exitError' # exitError
\* the Write call w assigns t.ready and t.exitError
WriteWritesState(w) ==
    wpc[w] # "idle" /\ wpc'[w] = "idle" /\ (ready' # ready \/ exitError' # exitError)

\* C30: every read and every write of ready, the stdin writer, exit_error and
\* the process and pipe references happens while holding t.mu, every write
\* under the exclusive lock: the reader loop reads cmd only while no Close
\* holds the lock, and exit_error and ready are written only by a fiber that
\* excludes every other holder.
C30_LockDiscipline ==
    [][/\ ReaderReadsCmd => muW = "none"
       /\ ReaderWritesExitError => LockFree
       /\ \A w \in Writers : WriteWritesState(w) => muW = "none" /\ muR = {w}]_vars

\* C31: Close tears down in the order cancel, close stdin, drain stderr, wait
\* for the child, force-kill, close stdout, drain the reader: when a Close of
\* a connected transport returns, stdout is closed, the reader loop has
\* exited and the message channel is closed.
C31_CloseDrainsReader ==
    [][(cpc = "finish" /\ cpc' = "idle") =>
          (stdout' # "open" /\ rpc' = "done" /\ messageChanClosed')]_vars

(***************************************************************************)
(* Close in the steps of its waits: the wait for t.mu, lines 707-727 under *)
(* the lock, the wait for stderrDone, the SIGTERM, and then the wait for   *)
(* the child as above.  Between these steps the other goroutines and the   *)
(* context watcher of os/exec run.                                         *)
(***************************************************************************)
\* the caller calls Close, which waits for t.mu.Lock()
CloseCall ==
    /\ Running /\ cpc = "idle" /\ ncalls < MaxCalls
    /\ ncalls' = ncalls + 1
    /\ cpc' = "lock"
    /\ UNCHANGED <<tvars, chvars, lvars, cvars, bvars, rvars, gvars, wpc, wn, wsnap,
                   wres, connectRes, endRes, closeRes, lastOp, hvars>>

\* lines 707-727: the lock is taken; ready, cancel, the flush and close of stdin
CloseLock ==
    /\ Running /\ cpc = "lock" /\ LockFree
    /\ IF CloseSkips
       THEN /\ cpc' = "idle" /\ closeRes' = "nil" /\ lastOp' = "close"
            /\ hist' = hist \cup (IF child # "none" THEN {"closed_after_spawn"} ELSE {})
                            \cup (IF errorChanClosed THEN {"closed_again"} ELSE {})
            /\ UNCHANGED <<tvars, bvars, childStdin, muW>>
       ELSE /\ ready' = FALSE
            /\ ctxDone' = TRUE
            /\ IF stdinWriter
               THEN FlushEffect /\ stdinWriter' = FALSE
               ELSE UNCHANGED <<wbuf, wbufErr, childStdin, stdinWriter>>
            /\ stdin' = "nil"
            /\ muW' = "close"
            /\ cpc' = IF stderr # "nil" THEN "stderrwait" ELSE "signal"
            /\ UNCHANGED <<cmd, stdout, stderr, stdoutReader, exitError, maxBufferSize,
                           stderrDone, pipeStderr, closeRes, lastOp, hist>>
    /\ UNCHANGED <<chvars, muR, child, exitCode, reaped, childStdinOpen, plan, pos,
                   sigs, rvars, gvars, wvars, connectRes, endRes, received,
                   readCtxDone, codec, offered, panicked>>

\* lines 730-738: case <-t.stderrDone, or case <-time.After(5 * time.Second)
CloseStderrWait ==
    /\ Running /\ cpc = "stderrwait"
    /\ stderr' = "nil"
    /\ cpc' = "signal"
    /\ UNCHANGED <<cmd, ctxDone, stdin, stdout, stdoutReader, stdinWriter, ready,
                   exitError, maxBufferSize, stderrDone, pipeStderr, chvars, lvars,
                   cvars, bvars, rvars, gvars, wvars, connectRes, endRes, closeRes,
                   lastOp, hvars>>

\* lines 741-750: Signal(SIGTERM) fails once the child's status was collected
CloseSignal ==
    /\ Running /\ cpc = "signal"
    /\ IF cmd = "started" /\ ~ProcessStateExited /\ reaped = "no"
       THEN /\ sigs' = Append(sigs, "TERM")
            /\ cwait' = "waiting"
            /\ cpc' = "wait"
       ELSE /\ cpc' = "finish"
            /\ UNCHANGED <<sigs, cwait>>
    /\ UNCHANGED <<tvars, chvars, lvars, child, exitCode, reaped, childStdinOpen,
                   plan, pos, childStdin, bvars, rvars, spc, wvars, connectRes,
                   endRes, closeRes, lastOp, hvars>>

CloseStepFine ==
    \/ CloseLock
    \/ CloseStderrWait
    \/ CloseSignal
    \/ CloseStep

\* what the child's stdin takes from the transport while the child does not
\* read it: the capacity of the pipe, scaled down
PipeCap == 2

\* the write of the flushed buffer to the pipe returns: the pipe has room for
\* it, or has no reader and the write fails
PipeWriteReturns ==
    FlushFails \/ Len(childStdin) + Len(wbuf) <= PipeCap

\* Flush on a pipe that the child does not drain blocks in the write
WriteFlushPipe(w) == PipeWriteReturns /\ WriteFlush(w)

\* sync.RWMutex: RLock waits while a Lock call is waiting
WriteEnterRW(w) == cpc # "lock" /\ WriteEnter(w)

WriteStep ==
    \/ WriteStringBegin("w1")
    \/ WriteStringEnd("w1")
    \/ WriteFlushPipe("w1")

(***************************************************************************)
(* The transport with callers that connect, write and close, and a child   *)
(* that need not read its stdin.  The goroutines of the transport and the  *)
(* calls in progress are scheduled fairly, and every timer fires; the      *)
(* callers and the child are not obliged to act.                           *)
(***************************************************************************)
InitClose == InitWith({[objs |-> <<ObjSys>>, k |-> 0, chunks |-> <<>>]}, {MaxBuf},
                      {TRUE, FALSE})

NextClose ==
    \/ ConnectOK
    \/ WriteEnterRW("w1")
    \/ WriteStep
    \/ CloseCall
    \/ CloseStepFine
    \/ ReaderStep
    \/ StderrHandlerExit
    \/ Consume
    \/ \E code \in {0, 1} : ChildExit(code)
    \/ CtxKill
    \/ ChildTerminated

SpecClose ==
    /\ InitClose /\ [][NextClose]_vars
    /\ WF_vars(CloseStepFine) /\ WF_vars(WriteStep) /\ WF_vars(ReaderStep)
    /\ WF_vars(StderrHandlerExit) /\ WF_vars(CtxKill) /\ WF_vars(Consume)

\* C32: during Close a running child is first sent SIGTERM and is killed only
\* after the graceful wait has timed out: no kill signal reaches the child
\* before the SIGTERM.
C32_TermBeforeKill ==
    \A i \in 1..Len(sigs) :
        sigs[i] \in {"KILL", "KILL_CTX"} => \E j \in 1..(i - 1) : sigs[j] = "TERM"

\* C33: every Close call eventually returns.
C33_CloseReturns ==
    (cpc # "idle") ~> (cpc = "idle" \/ ~Running)

C36_ChunkingPreservesValue ==
    (OneMessageObject /\ Delivered # <<>>) => Delivered = MessagesOf(plan.objs)

(***************************************************************************)
(* The framer on a stream whose first line is no JSON object: plain text,  *)
(* a closing brace, a JSON array, a number, or the literal null; message   *)
(* lines follow it.                                                        *)
(***************************************************************************)
JSONNull == <<"n", "u", "l", "l">>
NonObjects == {<<"x">>, <<RBRACE>>, <<"[", "]">>, <<"5">>, JSONNull}

PoisonPlans ==
    {[objs |-> <<g>> \o o, k |-> 0, chunks |-> <<>>] :
        g \in NonObjects, o \in SeqsUpTo({ObjSys, <<SP>>}, MaxObjs + 1)}

InitPoison == InitWith(PoisonPlans, BufSizes, {FALSE})

SpecPoison == InitPoison /\ [][NextFramer]_vars

\* the accumulator after the pass over the next line of stdout, when it is
\* emptied exactly for the texts that Reset holds of and for an overflow
NextAccumulator(Reset(_)) ==
    LET fragment == TrimSpace(StdoutLines[pos + 1])
        acc == jsonBuffer \o fragment
    IN  IF fragment = <<>> THEN jsonBuffer
        ELSE IF Len(acc) > maxBufferSize \/ Reset(acc) THEN <<>>
        ELSE acc

IsJSONObject(s) == s # <<>> /\ s[1] = LBRACE /\ JSONUnmarshalOK(s)
IsJSONObjectOrNull(s) == IsJSONObject(s) \/ s = JSONNull

\* the first line is not a prefix of a JSON object and no accumulator has
\* overflowed so far
Poisoned ==
    /\ plan.objs[1] \in NonObjects /\ pos >= 1
    /\ \A i \in 1..Len(OfferedAll) : OfferedAll[i] # "json_decode"

C37_NoContinueWithResume ==
    codec.pc = "spawned" =>
        ~(HasWords(codec.argv[1], <<"--continue">>) /\ HasWords(codec.argv[1], <<"--resume">>))

\* C39: the argv and the environment of the spawned child depend only on the
\* options as they were when the transport was constructed.
C39_OptionsSnapshot ==
    codec.pc = "spawned" =>
        LET made == codec.made[1]
            t == NewSubprocessCLITransport(made, codec.found)
        IN  /\ \E keys \in RangeOrders(DOMAIN made.ExtraArgs) :
                  codec.argv[1] = buildCommand(t.cliPath, made, keys)
            /\ codec.env = made.Env \cup {"PWD=" \o t.cwd}

(***************************************************************************)
(* The transport with a child that writes more messages than the message   *)
(* channel holds, a consumer that receives when it likes, and a caller     *)
(* that connects and closes.                                               *)
(***************************************************************************)
InitBackpressure ==
    InitWith({[objs |-> [i \in 1..(MessageChanCap + 2) |-> ObjSys], k |-> 0,
               chunks |-> <<>>]}, {MaxBuf}, {FALSE})

SpecBackpressure == InitBackpressure /\ [][NextTerm]_vars

\* s is an initial part of t
IsPrefix(s, t) == Len(s) <= Len(t) /\ SubSeq(t, 1, Len(s)) = s

\* C38: the message channel never holds more than its capacity; while it is
\* full and the context is not cancelled the reader stays in its send with the
\* message it holds, no message received or buffered is ever dropped or
\* overwritten, the send goes on as soon as the channel has room, and on a
\* cancelled context the reader can leave the send and then returns.
C38_Backpressure ==
    [][/\ Len(messageChan') <= MessageChanCap
       /\ (rpc = "send" /\ Len(messageChan) = MessageChanCap /\ ~ctxDone)
             => (rpc' = "send" /\ pending' = pending)
       /\ IsPrefix(received \o messageChan, received' \o messageChan')
       /\ (rpc = "send" /\ rpc' # "send") =>
             \/ messageChan' = Append(messageChan, pending) /\ rpc' = "scan"
             \/ ctxDone /\ rpc' = "done" /\ messageChanClosed'
       /\ (rpc = "send" /\ Running /\ (Len(messageChan) < MessageChanCap \/ ctxDone))
             => ENABLED ReaderSend]_vars

\* the reader is blocked in its send on the full channel
C38_Witness ==
    /\ rpc = "send" /\ Len(messageChan) = MessageChanCap
    /\ ~ctxDone /\ received = <<>>
    /\ pos = MessageChanCap + 1

(***************************************************************************)
(* stderrHandler line by line.  The child writes lines to its stderr; the  *)
(* handler scans them and hands them to the callback.  codec holds the     *)
(* stream: whether options.StderrCallback is set (without it the pipe is   *)
(* opened for the debug-to-stderr extra arg alone), the lines written,     *)
(* how many of them were written before t.ctx was cancelled, how many the  *)
(* scanner has returned, and the arguments of the callback in order.       *)
(***************************************************************************)
\* lines the child writes to stderr in one run
MaxErrLines == 2

ErrLines == {<<"e">>, <<SP, "f", SP>>, <<SP>>}

InitStderr ==
    /\ InitTransport({[objs |-> <<ObjSys>>, k |-> 0, chunks |-> <<>>]}, {MaxBuf},
                     {TRUE, FALSE})
    /\ \E callback \in BOOLEAN :
         /\ callback => pipeStderr
         /\ codec = [pc |-> "stderr", callback |-> callback, out |-> <<>>,
                     before |-> 0, rd |-> 0, cb |-> <<>>]

\* the child writes a line to its stderr
ChildStderr ==
    /\ Running /\ child = "running" /\ Len(codec.out) < MaxErrLines
    /\ \E line \in ErrLines :
         codec' = [codec EXCEPT !.out = Append(@, line),
                                !.before = IF ctxDone THEN @ ELSE @ + 1]
    /\ UNCHANGED <<tvars, chvars, lvars, cvars, bvars, rvars, gvars, wvars, avars,
                   received, readCtxDone, offered, panicked, hist>>

\* lines 607-618: Scan returns a line
StderrHandlerLine ==
    /\ Running /\ spc = "running" /\ stderr = "open" /\ codec.rd < Len(codec.out)
    /\ LET line == TrimSpace(codec.out[codec.rd + 1]) IN
       IF ctxDone
       THEN /\ spc' = "done" /\ stderrDone' = TRUE
            /\ codec' = [codec EXCEPT !.rd = @ + 1]
       ELSE /\ codec' = [codec EXCEPT
                            !.rd = @ + 1,
                            !.cb = IF line # <<>> /\ codec.callback
                                   THEN Append(@, line) ELSE @]
            /\ UNCHANGED <<spc, stderrDone>>
    /\ UNCHANGED <<cmd, ctxDone, stdin, stdout, stderr, stdoutReader, stdinWriter,
                   ready, exitError, maxBufferSize, pipeStderr, chvars, lvars, cvars,
                   bvars, rvars, cwait, wvars, avars, received, readCtxDone, offered,
                   panicked, hist>>

\* Scan returns false: the child has exited and every line is read, or Close
\* has closed the pipe
StderrHandlerEOF ==
    /\ stderr # "open" \/ codec.rd = Len(codec.out)
    /\ StderrHandlerExit

NextStderr ==
    \/ ConnectOK
    \/ CloseCall
    \/ CloseStepFine
    \/ ChildStderr
    \/ StderrHandlerLine
    \/ StderrHandlerEOF
    \/ \E code \in {0, 1} : ChildExit(code)
    \/ CtxKill
    \/ ChildTerminated

SpecStderr == InitStderr /\ [][NextStderr]_vars

\* the non-empty lines of ls, trimmed
RECURSIVE TrimmedLines(_)
TrimmedLines(ls) ==
    IF ls = <<>> THEN <<>>
    ELSE (IF TrimSpace(Head(ls)) = <<>> THEN <<>> ELSE <<TrimSpace(Head(ls))>>)
         \o TrimmedLines(Tail(ls))

\* C40: with a stderr callback set, every non-empty line the child writes to
\* stderr before the transport is cancelled is passed to the callback exactly
\* once, trimmed and in the order written, and the handler signals stderrDone
\* when it ends; with neither a callback nor debug-to-stderr no handler is
\* started and Close does not wait for one.
C40_StderrDelivery ==
    /\ codec.callback =>
          /\ IsPrefix(codec.cb, TrimmedLines(SubSeq(codec.out, 1, codec.before)))
          /\ spc = "done" =>
                (stderrDone /\ codec.cb = TrimmedLines(SubSeq(codec.out, 1, codec.before)))
    /\ ~pipeStderr => (spc = "none" /\ ~stderrDone /\ cpc # "stderrwait")

=============================================================================
